---- MODULE Spec2Model ----
(***************************************************************************)
(* A model of the MS feature extractor (src/src/msfe/msfe.py).             *)
(*                                                                         *)
(* Numbers.  Python floats and ints are modelled as exact rationals        *)
(* <<n, d>> in lowest terms with d > 0.  A division by zero of numpy       *)
(* floats gives <<0, 0>> (nan), <<1, 0>> (inf) or <<-1, 0>> (-inf).  The   *)
(* square root of a rational that has no rational root is the triple      *)
(* <<n, d, 2>>.  An m/z value is an integer number of grid units.          *)
(*                                                                         *)
(* A feature record (a Python dict, which keeps insertion order) is a      *)
(* sequence of entries [key, type, val]; type is the Python type the       *)
(* merger dispatches on: "int", "float", "list", "ndarray" or "other".     *)
(***************************************************************************)
EXTENDS Integers, Sequences, FiniteSets, TLC

VARIABLES
    pc,                          \* position of the running function
    error,                       \* exception that ended it, "none" if none
    call_no,                     \* number of the current call by the caller
    first_call,                  \* what the caller kept of its first returned call
    scan_type,                   \* argument of extract_main_features_from_scan
    get_names,                   \* argument get_names / we_need_features_names
    expected_ions_info,          \* the parsed catalogue (one ion per entry)
    spectrum,                    \* 'm/z array' and 'intensity array'
    centroids_indexes,           \* corrected_centroids_indexes
    actual_peaks,                \* one ActualPeak per expected ion
    i,                           \* loop index of the two peak loops
    independent_peaks_features,  \* per-peak feature records
    independent_peak_fits,       \* per-peak PeakFit records
    isotopic_peaks_features,
    fragmentation_peaks_features,
    non_expected_features,       \* frame records
    scan_features,               \* merged values
    features_names,              \* merged names
    list_of_scans_features,      \* argument of aggregate_features
    agg_names_in,                \* argument features_names of aggregate_features
    j,                           \* column index of the aggregation loop
    aggregated_main_features,
    aggregated_main_features_names,
    run_pc,                      \* position of extract_features_from_ms_run
    main_features_scans_indexes, \* the representative scans of the run
    main_features,               \* rows of the scans processed so far
    main_features_names,         \* the names kept by the run
    feature_matrix               \* rows handed to parser.update_feature_matrix

vars == <<pc, error, call_no, first_call, scan_type, get_names, expected_ions_info,
          spectrum, centroids_indexes, actual_peaks, i,
          independent_peaks_features, independent_peak_fits,
          isotopic_peaks_features, fragmentation_peaks_features,
          non_expected_features, scan_features, features_names,
          list_of_scans_features, agg_names_in, j,
          aggregated_main_features, aggregated_main_features_names,
          run_pc, main_features_scans_indexes, main_features, main_features_names,
          feature_matrix>>

scanVars == <<scan_type, get_names, expected_ions_info, spectrum, centroids_indexes,
              actual_peaks, i, independent_peaks_features, independent_peak_fits,
              isotopic_peaks_features, fragmentation_peaks_features,
              non_expected_features>>

aggVars == <<list_of_scans_features, agg_names_in, j,
             aggregated_main_features, aggregated_main_features_names>>

runVars == <<run_pc, main_features_scans_indexes, main_features, main_features_names,
             feature_matrix>>

----------------------------------------------------------------------------
(* Exact arithmetic *)

Abs(n) == IF n < 0 THEN -n ELSE n

RECURSIVE GCD(_, _)
GCD(a, b) == IF b = 0 THEN a ELSE GCD(b, a % b)

Sign(n) == IF n < 0 THEN -1 ELSE IF n = 0 THEN 0 ELSE 1

Rat(n, d) ==
    IF d = 0 THEN <<Sign(n), 0>>
    ELSE LET g == GCD(Abs(n), Abs(d))
             s == Sign(d)
         IN  <<(s * n) \div g, (s * d) \div g>>

RInt(n) == <<n, 1>>

RAdd(a, b) == Rat(a[1] * b[2] + b[1] * a[2], a[2] * b[2])

RSub(a, b) == Rat(a[1] * b[2] - b[1] * a[2], a[2] * b[2])

RMul(a, b) == Rat(a[1] * b[1], a[2] * b[2])

RDiv(a, b) == Rat(a[1] * b[2], a[2] * b[1])

RLess(a, b) == a[1] * b[2] < b[1] * a[2]

RAbs(a) == <<Abs(a[1]), a[2]>>

RMaxOf(a, b) == IF RLess(a, b) THEN b ELSE a

\* int(x): truncation towards zero
RTrunc(a) == RInt(Sign(a[1]) * (Abs(a[1]) \div a[2]))

MinusOne == RInt(-1)

IsRoot(k, n) == k * k = n

HasRoot(n) == \E k \in 0..n : IsRoot(k, n)

RootOf(n) == CHOOSE k \in 0..n : IsRoot(k, n)

\* numpy.std's final square root
RSqrt(a) ==
    IF HasRoot(a[1]) /\ HasRoot(a[2]) THEN <<RootOf(a[1]), RootOf(a[2])>>
    ELSE <<a[1], a[2], 2>>

RECURSIVE RSum(_)
RSum(s) == IF s = <<>> THEN RInt(0) ELSE RAdd(Head(s), RSum(Tail(s)))

RECURSIVE MaxInt(_)
MaxInt(s) == IF Len(s) = 1 THEN s[1]
             ELSE LET m == MaxInt(Tail(s)) IN IF s[1] >= m THEN s[1] ELSE m

Range(s) == {s[k] : k \in DOMAIN s}

\* a list comprehension [f(x) for x in s if keep(x)]
RECURSIVE SelectSeqBy(_, _)
SelectSeqBy(s, keep) ==
    IF s = <<>> THEN <<>>
    ELSE IF keep[Head(s)] THEN <<Head(s)>> \o SelectSeqBy(Tail(s), keep)
         ELSE SelectSeqBy(Tail(s), keep)

RECURSIVE Flatten(_)
Flatten(ss) == IF ss = <<>> THEN <<>> ELSE Head(ss) \o Flatten(Tail(ss))

\* [v for value in range(n)]
Repeat(v, n) == [k \in 1..n |-> v]

\* s[1:]
DropFirst(s) == IF s = <<>> THEN <<>> ELSE Tail(s)

\* s[0:n]
TakeFirst(s, n) == IF Len(s) <= n THEN s ELSE SubSeq(s, 1, n)

\* sorted(s) of integers
RECURSIVE InsertSorted(_, _)
InsertSorted(x, s) ==
    IF s = <<>> THEN <<x>>
    ELSE IF x <= Head(s) THEN <<x>> \o s
    ELSE <<Head(s)>> \o InsertSorted(x, Tail(s))

RECURSIVE Sorted(_)
Sorted(s) == IF s = <<>> THEN <<>> ELSE InsertSorted(Head(s), Sorted(Tail(s)))

Reversed(s) == [k \in DOMAIN s |-> s[Len(s) + 1 - k]]

RECURSIVE SumInt(_)
SumInt(s) == IF s = <<>> THEN 0 ELSE Head(s) + SumInt(Tail(s))

----------------------------------------------------------------------------
(* Feature-record entries *)

IntF(key, v) == [key |-> key, type |-> "int", val |-> v]

FloatF(key, v) == [key |-> key, type |-> "float", val |-> v]

ListF(key, vs) == [key |-> key, type |-> "list", val |-> vs]

Keys(record) == [k \in DOMAIN record |-> record[k].key]

----------------------------------------------------------------------------
(* Configuration constants (src/msfe/constants.py), in model units *)

max_sp_number == 2

widths_levels == << <<1, 5>>, <<1, 2>>, <<4, 5>> >>

saturation_intensity == 2

prf == 1

n_top_guys == 2

frame_intensity_percentiles == <<25, 50, 75>>

no_signal == 0

normal_scan_mz_frame_size == 10

normal_scan_number_of_frames == 2

chemical_noise_scan_mz_frame_size == 3

chemical_noise_scan_number_of_frames == 2

instrument_noise_mz_frame_size == 3

instrument_noise_scan_number_of_frames == 2

\* the literal 50 that starts the chemical-noise and instrument-noise ranges
FramesOrigin == 50

----------------------------------------------------------------------------
(* Bounds of the model *)

MaxCentroids == 2      \* centroids picked in a spectrum of a scan

MaxHeight == 2         \* largest fitted peak height

MaxCalls == 2          \* calls the caller makes with one catalogue

MaxScans == 2          \* scans handed to aggregate_features

MaxWidth == 2          \* values of one scan handed to aggregate_features

MaxPeakCentroids == 3  \* centroids of the spectrum a single peak is fitted in

MaxFitShift == 1       \* distance of the fitted centre from the raw apex

MaxResolution == 2     \* largest half-height width d of a fit

----------------------------------------------------------------------------
(* Catalogue, spectra and matching: parser and ms_operator *)

Ion(id, mz, isotopes, ratios, fragments) ==
    [id |-> id, expected_mz |-> mz, expected_isotopes |-> isotopes,
     expected_isotopic_ratios |-> ratios, expected_fragments |-> fragments]

\* parser.parse_expected_ions: every declared isotope and fragment is itself
\* an expected ion of the catalogue; a parent may head its own isotope list
parse_expected_ions(type) ==
    IF type = "normal"
    THEN << Ion("A", 11, <<11, 12, 13>>, << <<1, 2>>, <<3, 10>>, <<1, 5>> >>, <<>>),
            Ion("A_i1", 12, <<>>, <<>>, <<>>),
            Ion("A_i2", 13, <<>>, <<>>, <<>>) >>
    ELSE << Ion("C", 52, <<53>>, << <<1, 1>> >>, <<>>),
            Ion("C_i1", 53, <<>>, <<>>, <<>>),
            Ion("D", 51, <<>>, <<>>, <<51, 52>>) >>

ScanTypes == {"normal", "chemical_noise"}

\* the raw arrays of a scan of the given type
SpectrumOf(type) ==
    IF type = "normal"
    THEN [mz |-> <<11, 12, 13, 21>>, intensity |-> <<1, 2, 2, 1>>]
    ELSE [mz |-> <<50, 51, 52, 53>>, intensity |-> <<2, 1, 3, 1>>]

RECURSIVE IncreasingSeqs(_, _, _)
IncreasingSeqs(lo, hi, n) ==
    IF n = 0 THEN {<<>>}
    ELSE {<<>>} \cup
         UNION {{<<k>> \o s : s \in IncreasingSeqs(k + 1, hi, n - 1)} : k \in lo..hi}

\* scipy.signal.find_peaks followed by ms_operator.correct_centroids_indexes:
\* some increasing list of indexes into the spectrum
CentroidLists(sp, n) == IncreasingSeqs(1, Len(sp.mz), n)

\* the centroid closest to mz, the first one on a tie
ClosestCentroid(sp, centroids, mz) ==
    LET dist(k) == Abs(sp.mz[centroids[k]] - mz)
        best == CHOOSE k \in DOMAIN centroids :
                    /\ \A m \in DOMAIN centroids : dist(k) <= dist(m)
                    /\ \A m \in 1..(k - 1) : dist(m) > dist(k)
    IN  centroids[best]

ActualPeak(ion, present, index) ==
    [present |-> present, index |-> index, expected_mz |-> ion.expected_mz,
     id |-> ion.id, expected_isotopes |-> ion.expected_isotopes,
     expected_isotopic_ratios |-> ion.expected_isotopic_ratios,
     expected_fragments |-> ion.expected_fragments]

\* ms_operator.find_closest_centroids: one ActualPeak per expected ion, in
\* catalogue order; presentSet are the ions within the closeness tolerance
find_closest_centroids(sp, centroids, ions, presentSet) ==
    [k \in DOMAIN ions |->
        IF k \in presentSet /\ centroids # <<>>
        THEN ActualPeak(ions[k], TRUE, ClosestCentroid(sp, centroids, ions[k].expected_mz))
        ELSE ActualPeak(ions[k], FALSE, -1)]

----------------------------------------------------------------------------
(* Peak fitting and the per-peak features *)

\* ms_operator.get_peak_fitting_values: the apex is flat when a neighbour of
\* the centroid has the same intensity
IsApexFlat(sp, index) ==
    \/ index > 1 /\ sp.intensity[index - 1] = sp.intensity[index]
    \/ index < Len(sp.mz) /\ sp.intensity[index + 1] = sp.intensity[index]

\* what lmfit's GaussianModel.fit can return for the peak at index: a centre
\* within shift grid units of the raw apex, a half-height width d of at most
\* dmax and a height
FitResults(sp, index, shift, dmax) ==
    {[center |-> sp.mz[index] + s, d |-> d, height |-> h,
      goodness |-> << <<1, 2>>, RInt(-3), RInt(-2) >>] :
        s \in (-shift)..shift, d \in 1..dmax, h \in 1..MaxHeight}

\* numpy.linspace(predicted - prf * d, predicted + prf * d, 5001), on 3 points
Linspace3(center, halfwidth) == <<center - halfwidth, center, center + halfwidth>>

\* g_out.eval(x=xc): the height at the centre, 0 at both ends of the window
GaussEval(g_out, xc) == [k \in DOMAIN xc |-> IF xc[k] = g_out.center THEN g_out.height ELSE 0]

get_peak_fit(sp, actual_peak_info, g_out) ==
    LET theoretical_mz == actual_peak_info.expected_mz
        predicted_peak_mz == g_out.center
        xc == Linspace3(predicted_peak_mz, prf * g_out.d)
        yc == GaussEval(g_out, xc)
        signal_fit_mass_diff == RInt(sp.mz[actual_peak_info.index] - predicted_peak_mz)
        fit_theory_mass_diff == RInt(Abs(predicted_peak_mz - theoretical_mz))
    IN  [xc |-> xc, yc |-> yc,
         fit_info |->
            [model |-> "gaussian",
             goodness_of_fit |-> g_out.goodness,
             fit_theory_absolute_ma |-> fit_theory_mass_diff,
             fit_theory_ppm |-> RMul(RDiv(fit_theory_mass_diff, RInt(theoretical_mz)),
                                     RInt(1000000)),
             resolution |-> g_out.d,
             is_apex_flat |-> IsApexFlat(sp, actual_peak_info.index),
             signal_fit_absolute_ma |-> signal_fit_mass_diff,
             signal_fit_ppm |-> RMul(RDiv(signal_fit_mass_diff, RInt(predicted_peak_mz)),
                                     RInt(1000000))]]

\* continuous_mz[numpy.where(fitted_intensity == max(fitted_intensity))]
ApexMz(continuous_mz, fitted_intensity) ==
    continuous_mz[CHOOSE k \in DOMAIN fitted_intensity :
                      fitted_intensity[k] = MaxInt(fitted_intensity)]

RECURSIVE SpLoop(_, _, _, _, _, _)
SpLoop(major_peak_mz, major_peak_intensity, right_boundary_mz, sp, centroids, k) ==
    IF k > Len(centroids) THEN <<>>
    ELSE LET mz == sp.mz[centroids[k]]
         IN  IF major_peak_mz <= mz /\ mz <= right_boundary_mz
             THEN <<Rat(sp.intensity[centroids[k]], major_peak_intensity)>>
                  \o SpLoop(major_peak_mz, major_peak_intensity, right_boundary_mz,
                            sp, centroids, k + 1)
             ELSE IF mz > right_boundary_mz THEN <<>>
             ELSE SpLoop(major_peak_mz, major_peak_intensity, right_boundary_mz,
                         sp, centroids, k + 1)

\* mutant: the list is padded but never cut
SpPadOrCut_no_cut(sp_ratios) ==
    LET sp_number == Len(sp_ratios)
    IN  IF sp_number < max_sp_number
        THEN sp_ratios \o Repeat(MinusOne, max_sp_number - sp_number)
        ELSE sp_ratios

SpPadOrCut(sp_ratios) ==
    LET sp_number == Len(sp_ratios)
    IN  IF sp_number < max_sp_number
        THEN sp_ratios \o Repeat(MinusOne, max_sp_number - sp_number)
        ELSE IF sp_number > max_sp_number THEN SubSeq(sp_ratios, 1, max_sp_number)
        ELSE sp_ratios

extract_sp_features(major_peak_mz, major_peak_intensity, right_boundary_mz, sp, centroids) ==
    SpPadOrCut(SpLoop(major_peak_mz, major_peak_intensity, right_boundary_mz,
                      sp, centroids, 1))

WidthAt(continuous_mz, fitted_intensity, percent) ==
    LET level == RMul(RInt(MaxInt(fitted_intensity)), percent)
        residual(k) == RAbs(RSub(RInt(fitted_intensity[k]), level))
        first == CHOOSE k \in DOMAIN continuous_mz :
                    /\ \A m \in DOMAIN continuous_mz : ~RLess(residual(m), residual(k))
                    /\ \A m \in 1..(k - 1) : RLess(residual(k), residual(m))
    IN  RInt(2 * Abs(ApexMz(continuous_mz, fitted_intensity) - continuous_mz[first]))

extract_width_features(continuous_mz, fitted_intensity) ==
    [k \in DOMAIN widths_levels |-> WidthAt(continuous_mz, fitted_intensity, widths_levels[k])]

\* ms_operator.get_integration_arrays: the points with left <= m/z <= right
get_integration_arrays(mzs, intensities, left, right) ==
    LET inside == SelectSeqBy([k \in DOMAIN mzs |-> k],
                              [k \in DOMAIN mzs |-> left <= mzs[k] /\ mzs[k] <= right])
    IN  [y |-> [k \in DOMAIN inside |-> intensities[inside[k]]],
         x |-> [k \in DOMAIN inside |-> mzs[inside[k]]]]

\* numpy.trapz(y, x)
Trapz(y, x) ==
    RSum([k \in 1..(Len(x) - 1) |-> Rat((x[k + 1] - x[k]) * (y[k + 1] + y[k]), 2)])

extract_auc_features(sp, continuous_mz, fitted_intensity, predicted_peak_mz) ==
    LET left == continuous_mz[1]
        right == continuous_mz[Len(continuous_mz)]
        lraw == get_integration_arrays(sp.mz, sp.intensity, left, predicted_peak_mz)
        rraw == get_integration_arrays(sp.mz, sp.intensity, predicted_peak_mz, right)
        lfit == get_integration_arrays(continuous_mz, fitted_intensity, left, predicted_peak_mz)
        rfit == get_integration_arrays(continuous_mz, fitted_intensity, predicted_peak_mz, right)
    IN  [left_tail_auc |-> RSub(Trapz(lraw.y, lraw.x), Trapz(lfit.y, lfit.x)),
         right_tail_auc |-> RSub(Trapz(rraw.y, rraw.x), Trapz(rfit.y, rfit.x))]

\* mutant: the smaller tail is taken for the larger one
Symmetry_over_min(left_tail_auc, right_tail_auc) ==
    RDiv(RAdd(left_tail_auc, right_tail_auc),
         RMul(RInt(2), IF RLess(left_tail_auc, right_tail_auc) THEN left_tail_auc
                       ELSE right_tail_auc))

Symmetry(left_tail_auc, right_tail_auc) ==
    RDiv(RAdd(left_tail_auc, right_tail_auc),
         RMul(RInt(2), RMaxOf(left_tail_auc, right_tail_auc)))

BoolInt(b) == RInt(IF b THEN 1 ELSE 0)

CountPositive(ratios) == Cardinality({k \in DOMAIN ratios : ratios[k][1] > 0})

extract_peak_features(continuous_mz, fitted_intensity, fit_info, sp, centroids, peak_id) ==
    LET predicted_peak_mz == ApexMz(continuous_mz, fitted_intensity)
        intensity_value == MaxInt(fitted_intensity)
        sp_ratios == extract_sp_features(predicted_peak_mz, intensity_value,
                                         continuous_mz[Len(continuous_mz)], sp, centroids)
        auc == extract_auc_features(sp, continuous_mz, fitted_intensity, predicted_peak_mz)
    IN  << IntF("is_missing_" \o peak_id, RInt(0)),
           IntF("is_apex_flat_" \o peak_id, BoolInt(fit_info.is_apex_flat)),
           IntF("is_saturated_" \o peak_id, BoolInt(intensity_value > saturation_intensity)),
           IntF("intensity_" \o peak_id, RTrunc(RInt(intensity_value))),
           FloatF("absolute_mass_accuracy_" \o peak_id, fit_info.fit_theory_absolute_ma),
           FloatF("ppm_" \o peak_id, fit_info.fit_theory_ppm),
           ListF("widths_" \o peak_id, extract_width_features(continuous_mz, fitted_intensity)),
           IntF("subsequent_peaks_number_" \o peak_id, RInt(CountPositive(sp_ratios))),
           ListF("subsequent_peaks_ratios_" \o peak_id, sp_ratios),
           FloatF("left_tail_auc_" \o peak_id, auc.left_tail_auc),
           FloatF("right_tail_auc_" \o peak_id, auc.right_tail_auc),
           FloatF("symmetry_" \o peak_id, Symmetry(auc.left_tail_auc, auc.right_tail_auc)),
           ListF("goodness-of-fit_" \o peak_id, fit_info.goodness_of_fit) >>

fit_peak_and_extract_features(actual_peak, sp, centroids, g_out) ==
    LET fit == get_peak_fit(sp, actual_peak, g_out)
    IN  [peak_fit |-> [expected_mz |-> actual_peak.expected_mz,
                       peak_id |-> actual_peak.id,
                       mz |-> fit.xc,
                       intensity |-> fit.yc,
                       info |-> fit.fit_info],
         peak_features |-> extract_peak_features(fit.xc, fit.yc, fit.fit_info, sp,
                                                 centroids, actual_peak.id)]

\* mutant: a missing peak reported with intensity 0
get_null_peak_features_zero_intensity(peak_id) ==
    << IntF("is_missing_" \o peak_id, RInt(1)),
       IntF("is_apex_flat_" \o peak_id, MinusOne),
       IntF("is_saturated_" \o peak_id, MinusOne),
       IntF("intensity_" \o peak_id, RInt(0)),
       IntF("absolute_mass_accuracy_" \o peak_id, MinusOne),
       IntF("ppm_" \o peak_id, MinusOne),
       ListF("widths_" \o peak_id, <<MinusOne, MinusOne, MinusOne>>),
       IntF("subsequent_peaks_number_" \o peak_id, MinusOne),
       ListF("subsequent_peaks_ratios_" \o peak_id, Repeat(MinusOne, max_sp_number)),
       IntF("left_tail_auc_" \o peak_id, MinusOne),
       IntF("right_tail_auc_" \o peak_id, MinusOne),
       IntF("symmetry_" \o peak_id, MinusOne),
       ListF("goodness-of-fit_" \o peak_id, <<MinusOne, MinusOne, MinusOne>>) >>

get_null_peak_features(peak_id) ==
    << IntF("is_missing_" \o peak_id, RInt(1)),
       IntF("is_apex_flat_" \o peak_id, MinusOne),
       IntF("is_saturated_" \o peak_id, MinusOne),
       IntF("intensity_" \o peak_id, MinusOne),
       IntF("absolute_mass_accuracy_" \o peak_id, MinusOne),
       IntF("ppm_" \o peak_id, MinusOne),
       ListF("widths_" \o peak_id, <<MinusOne, MinusOne, MinusOne>>),
       IntF("subsequent_peaks_number_" \o peak_id, MinusOne),
       ListF("subsequent_peaks_ratios_" \o peak_id, Repeat(MinusOne, max_sp_number)),
       IntF("left_tail_auc_" \o peak_id, MinusOne),
       IntF("right_tail_auc_" \o peak_id, MinusOne),
       IntF("symmetry_" \o peak_id, MinusOne),
       ListF("goodness-of-fit_" \o peak_id, <<MinusOne, MinusOne, MinusOne>>) >>

\* mutant: the null fit holds a curve of zeros
get_null_peak_fit_zero_curve(actual_peak) ==
    [expected_mz |-> actual_peak.expected_mz,
     peak_id |-> actual_peak.id,
     mz |-> <<0>>,
     intensity |-> <<0>>,
     info |-> [model |-> "none"]]

\* 'info': {} of the null fit is the record with no fit
get_null_peak_fit(actual_peak) ==
    [expected_mz |-> actual_peak.expected_mz,
     peak_id |-> actual_peak.id,
     mz |-> <<-1>>,
     intensity |-> <<-1>>,
     info |-> [model |-> "none"]]

----------------------------------------------------------------------------
(* Isotope and fragment comparison *)

\* for k in range(len(peak_fits)): if peak_fits[k]['expected_mz'] == mz: ... break
\* the first fit with that expected m/z, 0 when the inner loop finds none
FirstFitOf(peak_fits, mz) ==
    IF \E k \in DOMAIN peak_fits : peak_fits[k].expected_mz = mz
    THEN CHOOSE k \in DOMAIN peak_fits :
            /\ peak_fits[k].expected_mz = mz
            /\ \A m \in 1..(k - 1) : peak_fits[m].expected_mz # mz
    ELSE 0

\* what one pass of the loop over the declared isotopes appends to the four lists
IsotopePass(major_peak_index, actual_peaks_info, peak_fits, jj) ==
    LET major == peak_fits[major_peak_index]
        major_peak_max_intensity == MaxInt(major.intensity)
        major_peak_mz == ApexMz(major.mz, major.intensity)
        parent == actual_peaks_info[major_peak_index]
        k == FirstFitOf(peak_fits, parent.expected_isotopes[jj])
        none == [ratios |-> <<>>, mass_diffs |-> <<>>, intensities |-> <<>>,
                 expected_ratios |-> <<>>]
    IN  IF k = 0 THEN none
        ELSE IF peak_fits[k].mz[1] # -1
        THEN LET max_isotope_intensity == MaxInt(peak_fits[k].intensity)
                 isotope_mz == ApexMz(peak_fits[k].mz, peak_fits[k].intensity)
             IN  [ratios |-> <<Rat(max_isotope_intensity, major_peak_max_intensity)>>,
                  mass_diffs |-> <<RInt(isotope_mz - major_peak_mz)>>,
                  intensities |-> <<RInt(max_isotope_intensity)>>,
                  expected_ratios |-> <<parent.expected_isotopic_ratios[jj]>>]
        ELSE [ratios |-> <<MinusOne>>, mass_diffs |-> <<MinusOne>>,
              intensities |-> <<MinusOne>>, expected_ratios |-> <<>>]

\* mutant: only the missing isotopes' entries get the sentinel
IsotopeRatiosDiffs_per_entry(isotope_intensities, isotope_expected_ratios) ==
    LET total == RSum(isotope_intensities)
    IN  [k \in DOMAIN isotope_intensities |->
            IF isotope_intensities[k] = MinusOne THEN MinusOne
            ELSE RDiv(isotope_intensities[k], total)]

IsotopeRatiosDiffs(isotope_intensities, isotope_expected_ratios) ==
    IF \E k \in DOMAIN isotope_intensities : isotope_intensities[k] = MinusOne
    THEN Repeat(MinusOne, Len(isotope_intensities))
    ELSE LET total == RSum(isotope_intensities)
             isotope_ratios == [k \in DOMAIN isotope_intensities |->
                                    RDiv(isotope_intensities[k], total)]
         IN  [k \in DOMAIN isotope_ratios |->
                 RSub(isotope_ratios[k], isotope_expected_ratios[k])]

find_isotope_and_extract_features(major_peak_index, actual_peaks_info, peak_fits) ==
    LET declared == actual_peaks_info[major_peak_index].expected_isotopes
        pass == [jj \in DOMAIN declared |->
                    IsotopePass(major_peak_index, actual_peaks_info, peak_fits, jj)]
        isotope_intensity_ratios == Flatten([jj \in DOMAIN declared |-> pass[jj].ratios])
        isotope_mass_diff_values == Flatten([jj \in DOMAIN declared |-> pass[jj].mass_diffs])
        isotope_intensities == Flatten([jj \in DOMAIN declared |-> pass[jj].intensities])
        isotope_expected_ratios ==
            Flatten([jj \in DOMAIN declared |-> pass[jj].expected_ratios])
        peak_id == actual_peaks_info[major_peak_index].id
    IN  << ListF("isotopes_ratios_" \o peak_id, DropFirst(isotope_intensity_ratios)),
           ListF("isotopes_mass_diffs_" \o peak_id, DropFirst(isotope_mass_diff_values)),
           ListF("isotopes_ratios_diffs_" \o peak_id,
                 IsotopeRatiosDiffs(isotope_intensities, isotope_expected_ratios)) >>

\* mutant: the mass difference of a fragment has the sign of an isotope's
FragmentPass_isotope_sign(major_peak_index, actual_peaks_info, peak_fits, jj) ==
    LET major == peak_fits[major_peak_index]
        major_peak_max_intensity == MaxInt(major.intensity)
        major_peak_mz == ApexMz(major.mz, major.intensity)
        parent == actual_peaks_info[major_peak_index]
        k == FirstFitOf(peak_fits, parent.expected_fragments[jj])
    IN  IF k = 0 THEN [ratios |-> <<>>, mass_diffs |-> <<>>]
        ELSE IF peak_fits[k].mz[1] # -1
        THEN LET max_fragment_intensity == MaxInt(peak_fits[k].intensity)
                 fragment_mz == ApexMz(peak_fits[k].mz, peak_fits[k].intensity)
             IN  [ratios |-> <<Rat(max_fragment_intensity, major_peak_max_intensity)>>,
                  mass_diffs |-> <<RInt(fragment_mz - major_peak_mz)>>]
        ELSE [ratios |-> <<MinusOne>>, mass_diffs |-> <<MinusOne>>]

FragmentPass(major_peak_index, actual_peaks_info, peak_fits, jj) ==
    LET major == peak_fits[major_peak_index]
        major_peak_max_intensity == MaxInt(major.intensity)
        major_peak_mz == ApexMz(major.mz, major.intensity)
        parent == actual_peaks_info[major_peak_index]
        k == FirstFitOf(peak_fits, parent.expected_fragments[jj])
    IN  IF k = 0 THEN [ratios |-> <<>>, mass_diffs |-> <<>>]
        ELSE IF peak_fits[k].mz[1] # -1
        THEN LET max_fragment_intensity == MaxInt(peak_fits[k].intensity)
                 fragment_mz == ApexMz(peak_fits[k].mz, peak_fits[k].intensity)
             IN  [ratios |-> <<Rat(max_fragment_intensity, major_peak_max_intensity)>>,
                  mass_diffs |-> <<RInt(major_peak_mz - fragment_mz)>>]
        ELSE [ratios |-> <<MinusOne>>, mass_diffs |-> <<MinusOne>>]

find_fragment_and_extract_features(major_peak_index, actual_peaks_info, peak_fits) ==
    LET declared == actual_peaks_info[major_peak_index].expected_fragments
        pass == [jj \in DOMAIN declared |->
                    FragmentPass(major_peak_index, actual_peaks_info, peak_fits, jj)]
        fragment_intensity_ratios == Flatten([jj \in DOMAIN declared |-> pass[jj].ratios])
        fragment_mass_diff_values == Flatten([jj \in DOMAIN declared |-> pass[jj].mass_diffs])
        peak_id == actual_peaks_info[major_peak_index].id
    IN  << ListF("fragments_ratios_" \o peak_id, DropFirst(fragment_intensity_ratios)),
           ListF("fragments_mass_diffs_" \o peak_id, DropFirst(fragment_mass_diff_values)) >>

\* [-1 for value in range(1, n)]
RepeatFromOne(n) == Repeat(MinusOne, IF n >= 1 THEN n - 1 ELSE 0)

\* mutant: range(len(...)) instead of range(1, len(...))
get_null_isotopic_features_full_length(actual_peak_info) ==
    LET peak_id == actual_peak_info.id
        n == Len(actual_peak_info.expected_isotopes)
    IN  << ListF("isotopes_ratios_" \o peak_id, Repeat(MinusOne, n)),
           ListF("isotopes_mass_diffs_" \o peak_id, Repeat(MinusOne, n)),
           ListF("isotopes_ratios_diffs_" \o peak_id, Repeat(MinusOne, n)) >>

get_null_isotopic_features(actual_peak_info) ==
    LET peak_id == actual_peak_info.id
        n == Len(actual_peak_info.expected_isotopes)
    IN  << ListF("isotopes_ratios_" \o peak_id, RepeatFromOne(n)),
           ListF("isotopes_mass_diffs_" \o peak_id, RepeatFromOne(n)),
           ListF("isotopes_ratios_diffs_" \o peak_id, Repeat(MinusOne, n)) >>

get_null_fragmentation_features(actual_peak_info) ==
    LET peak_id == actual_peak_info.id
        n == Len(actual_peak_info.expected_fragments)
    IN  << ListF("fragments_ratios_" \o peak_id, RepeatFromOne(n)),
           ListF("fragments_mass_diffs_" \o peak_id, RepeatFromOne(n)) >>

----------------------------------------------------------------------------
(* Frame noise features *)

\* numpy.percentile(values, q) for one q, linear interpolation between ranks
Percentile(values, q) ==
    LET a == Sorted(values)
        n == Len(a)
        lower == (q * (n - 1)) \div 100
        rest == (q * (n - 1)) % 100
    IN  IF lower + 1 >= n THEN RInt(a[n])
        ELSE RAdd(RInt(a[lower + 1]), Rat(rest * (a[lower + 2] - a[lower + 1]), 100))

Percentiles(values) ==
    [k \in DOMAIN frame_intensity_percentiles |->
        Percentile(values, frame_intensity_percentiles[k])]

\* while mz_frame[0] > mz[centroids[i]] and i+1 < len(centroids): i += 1
\* (k is the 1-based position, k = i + 1)
RECURSIVE SkipToFrame(_, _, _, _)
SkipToFrame(mz_frame, sp, centroids, k) ==
    IF mz_frame[1] > sp.mz[centroids[k]] /\ k < Len(centroids)
    THEN SkipToFrame(mz_frame, sp, centroids, k + 1)
    ELSE k

\* mutant: only the first expected peak is looked at
IsExpectedPeak_first_only(peaks, index) ==
    peaks # <<>> /\ peaks[1].present /\ peaks[1].index = index

IsExpectedPeak(peaks, index) ==
    \E p \in DOMAIN peaks : peaks[p].present /\ peaks[p].index = index

RECURSIVE CollectNonExpected(_, _, _, _, _)
CollectNonExpected(mz_frame, sp, centroids, peaks, k) ==
    LET mz == sp.mz[centroids[k]]
    IN  IF mz_frame[1] < mz /\ mz < mz_frame[2] /\ k < Len(centroids)
        THEN (IF IsExpectedPeak(peaks, centroids[k]) THEN <<>>
              ELSE <<sp.intensity[centroids[k]]>>)
             \o (IF k + 1 = Len(centroids) + 1 THEN <<>>
                 ELSE CollectNonExpected(mz_frame, sp, centroids, peaks, k + 1))
        ELSE <<>>

RECURSIVE CollectAll(_, _, _, _)
CollectAll(mz_frame, sp, centroids, k) ==
    LET mz == sp.mz[centroids[k]]
    IN  IF mz_frame[1] < mz /\ mz < mz_frame[2] /\ k < Len(centroids)
        THEN <<sp.intensity[centroids[k]]>> \o CollectAll(mz_frame, sp, centroids, k + 1)
        ELSE <<>>

TopPeaks(frame_peaks_intensities) ==
    LET top == TakeFirst(Reversed(Sorted(frame_peaks_intensities)), n_top_guys)
    IN  IF Len(top) < n_top_guys THEN top \o Repeat(no_signal, n_top_guys - Len(top))
        ELSE top

AsNumbers(ints) == [k \in DOMAIN ints |-> RInt(ints[k])]

FrameId(prefix, mz_frame) ==
    prefix \o "_" \o ToString(mz_frame[1]) \o "_" \o ToString(mz_frame[2])

\* centroids[0] of an empty list raises IndexError
extract_non_expected_features_from_one_frame(mz_frame, sp, centroids, peaks, type) ==
    IF centroids = <<>> THEN [raised |-> TRUE, features |-> <<>>]
    ELSE LET frame_peaks_intensities ==
                 CollectNonExpected(mz_frame, sp, centroids, peaks,
                                    SkipToFrame(mz_frame, sp, centroids, 1))
             top_peaks_intensities == TopPeaks(frame_peaks_intensities)
             features_id == FrameId(SubSeq(type, 1, 4), mz_frame)
         IN  [raised |-> FALSE,
              features |->
                << IntF("number_of_peaks_" \o features_id,
                        RInt(Len(frame_peaks_intensities))),
                   FloatF("intensity_sum_" \o features_id,
                          RInt(SumInt(frame_peaks_intensities))),
                   ListF("percentiles_" \o features_id,
                         IF Len(frame_peaks_intensities) > 0
                         THEN Percentiles(frame_peaks_intensities)
                         ELSE Repeat(RInt(no_signal), Len(frame_intensity_percentiles))),
                   ListF("top_peaks_intensities_" \o features_id,
                         AsNumbers(top_peaks_intensities)),
                   ListF("top_percentiles_" \o features_id,
                         Percentiles(top_peaks_intensities)) >>]

extract_instrument_noise_features_from_one_frame(mz_frame, sp, centroids) ==
    IF centroids = <<>> THEN [raised |-> TRUE, features |-> <<>>]
    ELSE LET frame_peaks_intensities ==
                 CollectAll(mz_frame, sp, centroids,
                            SkipToFrame(mz_frame, sp, centroids, 1))
             top_peaks_intensities == TopPeaks(frame_peaks_intensities)
             features_id == FrameId("bg", mz_frame)
         IN  [raised |-> FALSE,
              features |->
                << IntF("number_of_peaks_" \o features_id,
                        RInt(Len(frame_peaks_intensities))),
                   IntF("intensity_sum_" \o features_id,
                        RInt(SumInt(frame_peaks_intensities))),
                   ListF("percentiles_" \o features_id,
                         IF Len(frame_peaks_intensities) > 0
                         THEN Percentiles(frame_peaks_intensities)
                         ELSE Repeat(RInt(0), Len(frame_intensity_percentiles))),
                   ListF("top_peaks_intensities_" \o features_id,
                         AsNumbers(top_peaks_intensities)),
                   ListF("top_percentiles_" \o features_id,
                         Percentiles(top_peaks_intensities)) >>]

\* frames.append([ranges[i], ranges[i + 1]]) over ranges starting at first
FramesFrom(first, size, number) ==
    [k \in 1..number |-> <<first + (k - 1) * size, first + k * size>>]

NonExpectedFrames(type) ==
    IF type = "normal"
    THEN FramesFrom(normal_scan_mz_frame_size, normal_scan_mz_frame_size,
                    normal_scan_number_of_frames)
    ELSE IF type = "chemical_noise"
    THEN FramesFrom(FramesOrigin, chemical_noise_scan_mz_frame_size,
                    chemical_noise_scan_number_of_frames)
    ELSE <<>>

\* the frame records, or the exception the first failing frame raises
form_frames_and_extract_non_expected_features(sp, centroids, peaks, type) ==
    LET frames == NonExpectedFrames(type)
        each == [k \in DOMAIN frames |->
                    extract_non_expected_features_from_one_frame(frames[k], sp, centroids,
                                                                 peaks, type)]
    IN  IF \E k \in DOMAIN frames : each[k].raised
        THEN [raised |-> TRUE, features |-> <<>>]
        ELSE [raised |-> FALSE, features |-> [k \in DOMAIN frames |-> each[k].features]]

form_frames_and_extract_instrument_noise_features(sp, centroids) ==
    LET frames == FramesFrom(FramesOrigin, instrument_noise_mz_frame_size,
                             instrument_noise_scan_number_of_frames)
        each == [k \in DOMAIN frames |->
                    extract_instrument_noise_features_from_one_frame(frames[k], sp, centroids)]
    IN  IF \E k \in DOMAIN frames : each[k].raised
        THEN [raised |-> TRUE, features |-> <<>>]
        ELSE [raised |-> FALSE, features |-> [k \in DOMAIN frames |-> each[k].features]]

----------------------------------------------------------------------------
(* Merging the records of a scan into one row *)

Supported(entry) == entry.type \in {"int", "float", "list", "ndarray"}

\* the values one entry appends or extends the row with
EntryValues(entry) ==
    IF entry.type \in {"int", "float"} THEN <<entry.val>> ELSE entry.val

\* the names one entry appends: its key, or key_0 .. key_(n-1)
EntryNames(entry) ==
    IF entry.type \in {"int", "float"} THEN <<entry.key>>
    ELSE [k \in 1..Len(entry.val) |-> entry.key \o "_" \o ToString(k - 1)]

\* mutant: without names, entries of an unknown type are skipped silently
extend_scan_features_lenient(row, some_new_features, new_features_type, we_need_features_names) ==
    LET entries == Flatten(some_new_features)
        known == SelectSeqBy(entries, [e \in Range(entries) |-> Supported(e)])
    IN  IF we_need_features_names /\ \E k \in DOMAIN entries : ~Supported(entries[k])
        THEN [values |-> <<>>, names |-> <<>>, raised |-> new_features_type]
        ELSE [values |-> row.values \o Flatten([k \in DOMAIN known |-> EntryValues(known[k])]),
              names |-> IF we_need_features_names
                        THEN row.names \o Flatten([k \in DOMAIN known |-> EntryNames(known[k])])
                        ELSE row.names,
              raised |-> "none"]

\* the row so far is [values, names, raised]; an entry of another type raises
\* ValueError and the row is lost
extend_scan_features(row, some_new_features, new_features_type, we_need_features_names) ==
    LET entries == Flatten(some_new_features)
    IN  IF \E k \in DOMAIN entries : ~Supported(entries[k])
        THEN [values |-> <<>>, names |-> <<>>, raised |-> new_features_type]
        ELSE [values |-> row.values \o Flatten([k \in DOMAIN entries |-> EntryValues(entries[k])]),
              names |-> IF we_need_features_names
                        THEN row.names \o Flatten([k \in DOMAIN entries |-> EntryNames(entries[k])])
                        ELSE row.names,
              raised |-> "none"]

ExtendNext(row, some_new_features, new_features_type, names_needed) ==
    IF row.raised # "none" THEN row
    ELSE extend_scan_features(row, some_new_features, new_features_type, names_needed)

\* mutant: the fragment records are merged before the isotope records
merge_features_fragments_first(all_independent_features, all_isotopic_features, all_fragmentation_features, all_non_expected_features, names_needed) ==
    LET r0 == [values |-> <<>>, names |-> <<>>, raised |-> "none"]
        r1 == ExtendNext(r0, all_independent_features, "independent", names_needed)
        r2 == ExtendNext(r1, all_fragmentation_features, "fragmentation", names_needed)
        r3 == ExtendNext(r2, all_isotopic_features, "isotopic", names_needed)
    IN  ExtendNext(r3, all_non_expected_features, "non-expected", names_needed)

merge_features(all_independent_features, all_isotopic_features, all_fragmentation_features, all_non_expected_features, names_needed) ==
    LET r0 == [values |-> <<>>, names |-> <<>>, raised |-> "none"]
        r1 == ExtendNext(r0, all_independent_features, "independent", names_needed)
        r2 == ExtendNext(r1, all_isotopic_features, "isotopic", names_needed)
        r3 == ExtendNext(r2, all_fragmentation_features, "fragmentation", names_needed)
    IN  ExtendNext(r3, all_non_expected_features, "non-expected", names_needed)

----------------------------------------------------------------------------
(* extract_main_features_from_scan, one loop pass or one call per step *)

NoCall == [done |-> FALSE, names |-> <<>>, width |-> 0, matched |-> "none"]

\* the arguments and the matching of one call; present are the matched ions
StartScan(type, names_needed, centroids, present) ==
    LET ions == parse_expected_ions(type)
        sp == SpectrumOf(type)
    IN  /\ scan_type' = type
        /\ get_names' = names_needed
        /\ expected_ions_info' = ions
        /\ spectrum' = sp
        /\ centroids_indexes' = centroids
        /\ actual_peaks' = find_closest_centroids(sp, centroids, ions, present)
        /\ i' = 1
        /\ independent_peaks_features' = <<>>
        /\ independent_peak_fits' = <<>>
        /\ isotopic_peaks_features' = <<>>
        /\ fragmentation_peaks_features' = <<>>
        /\ non_expected_features' = <<>>
        /\ scan_features' = <<>>
        /\ features_names' = <<>>
        /\ error' = "none"
        /\ pc' = "fit_loop"

\* no run of extract_features_from_ms_run is in progress
RunIdle ==
    /\ run_pc = "idle"
    /\ main_features_scans_indexes = <<>>
    /\ main_features = <<>>
    /\ main_features_names = <<>>
    /\ feature_matrix = <<>>

AggIdle ==
    /\ list_of_scans_features = <<>>
    /\ agg_names_in = <<>>
    /\ j = 0
    /\ aggregated_main_features = <<>>
    /\ aggregated_main_features_names = <<>>

InitScan ==
    /\ pc = "fit_loop"
    /\ error = "none"
    /\ call_no = 1
    /\ first_call = NoCall
    /\ scan_type \in ScanTypes
    /\ get_names \in BOOLEAN
    /\ expected_ions_info = parse_expected_ions(scan_type)
    /\ spectrum = SpectrumOf(scan_type)
    /\ centroids_indexes \in CentroidLists(spectrum, MaxCentroids)
    /\ \E present \in SUBSET (DOMAIN expected_ions_info) :
           /\ centroids_indexes = <<>> => present = {}
           /\ actual_peaks = find_closest_centroids(spectrum, centroids_indexes,
                                                    expected_ions_info, present)
    /\ i = 1
    /\ independent_peaks_features = <<>>
    /\ independent_peak_fits = <<>>
    /\ isotopic_peaks_features = <<>>
    /\ fragmentation_peaks_features = <<>>
    /\ non_expected_features = <<>>
    /\ scan_features = <<>>
    /\ features_names = <<>>
    /\ AggIdle
    /\ RunIdle

\* where the first loop hands over to the second
AfterFitLoop(n) == IF n = Len(actual_peaks) THEN "companion_loop" ELSE "fit_loop"

NextIndex(n) == IF n = Len(actual_peaks) THEN 1 ELSE n + 1

\* lines 649-656: a present peak is fitted; lmfit returns some fit
FitPresentPeak ==
    /\ pc = "fit_loop"
    /\ actual_peaks[i].present
    /\ \E g_out \in FitResults(spectrum, actual_peaks[i].index, 0, 1) :
         LET r == fit_peak_and_extract_features(actual_peaks[i], spectrum,
                                                centroids_indexes, g_out)
         IN  /\ independent_peaks_features' = Append(independent_peaks_features, r.peak_features)
             /\ independent_peak_fits' = Append(independent_peak_fits, r.peak_fit)
    /\ pc' = AfterFitLoop(i)
    /\ i' = NextIndex(i)
    /\ UNCHANGED <<error, call_no, first_call, scan_type, get_names, expected_ions_info,
                   spectrum, centroids_indexes, actual_peaks, isotopic_peaks_features,
                   fragmentation_peaks_features, non_expected_features, scan_features,
                   features_names>>
    /\ UNCHANGED aggVars
    /\ UNCHANGED runVars

\* line 653 with no handler around it: the fit raises and the scan ends
FitRaises ==
    /\ pc = "fit_loop"
    /\ actual_peaks[i].present
    /\ pc' = "raised"
    /\ error' = "FitError"
    /\ UNCHANGED <<call_no, first_call, scan_features, features_names>>
    /\ UNCHANGED scanVars
    /\ UNCHANGED aggVars
    /\ UNCHANGED runVars

\* lines 658-666
FitAbsentPeak ==
    /\ pc = "fit_loop"
    /\ ~actual_peaks[i].present
    /\ independent_peaks_features' =
           Append(independent_peaks_features, get_null_peak_features(actual_peaks[i].id))
    /\ independent_peak_fits' = Append(independent_peak_fits, get_null_peak_fit(actual_peaks[i]))
    /\ pc' = AfterFitLoop(i)
    /\ i' = NextIndex(i)
    /\ UNCHANGED <<error, call_no, first_call, scan_type, get_names, expected_ions_info,
                   spectrum, centroids_indexes, actual_peaks, isotopic_peaks_features,
                   fragmentation_peaks_features, non_expected_features, scan_features,
                   features_names>>
    /\ UNCHANGED aggVars
    /\ UNCHANGED runVars

AfterCompanionLoop(n) == IF n = Len(actual_peaks) THEN "frames" ELSE "companion_loop"

\* lines 672-691: one pass of the isotope and fragment loop
CompanionPass ==
    /\ pc = "companion_loop"
    /\ LET peak == actual_peaks[i]
       IN  /\ isotopic_peaks_features' =
                 IF Len(peak.expected_isotopes) > 0
                 THEN Append(isotopic_peaks_features,
                             IF peak.present
                             THEN find_isotope_and_extract_features(i, actual_peaks,
                                                                    independent_peak_fits)
                             ELSE get_null_isotopic_features(peak))
                 ELSE isotopic_peaks_features
           /\ fragmentation_peaks_features' =
                 IF Len(peak.expected_fragments) > 0
                 THEN Append(fragmentation_peaks_features,
                             IF peak.present
                             THEN find_fragment_and_extract_features(i, actual_peaks,
                                                                     independent_peak_fits)
                             ELSE get_null_fragmentation_features(peak))
                 ELSE fragmentation_peaks_features
    /\ pc' = AfterCompanionLoop(i)
    /\ i' = NextIndex(i)
    /\ UNCHANGED <<error, call_no, first_call, scan_type, get_names, expected_ions_info,
                   spectrum, centroids_indexes, actual_peaks, independent_peaks_features,
                   independent_peak_fits, non_expected_features, scan_features,
                   features_names>>
    /\ UNCHANGED aggVars
    /\ UNCHANGED runVars

\* lines 694-695
FormFrames ==
    /\ pc = "frames"
    /\ LET r == form_frames_and_extract_non_expected_features(spectrum, centroids_indexes,
                                                              actual_peaks, scan_type)
       IN  IF r.raised
           THEN /\ pc' = "raised"
                /\ error' = "IndexError"
                /\ UNCHANGED non_expected_features
           ELSE /\ pc' = "merge"
                /\ non_expected_features' = r.features
                /\ UNCHANGED error
    /\ UNCHANGED <<call_no, first_call, scan_type, get_names, expected_ions_info,
                   spectrum, centroids_indexes, actual_peaks, i, independent_peaks_features,
                   independent_peak_fits, isotopic_peaks_features,
                   fragmentation_peaks_features, scan_features, features_names>>
    /\ UNCHANGED aggVars
    /\ UNCHANGED runVars

\* lines 698-701
MergeAndReturn ==
    /\ pc = "merge"
    /\ LET r == merge_features(independent_peaks_features, isotopic_peaks_features,
                               fragmentation_peaks_features, non_expected_features,
                               get_names)
       IN  IF r.raised # "none"
           THEN /\ pc' = "raised"
                /\ error' = "ValueError"
                /\ UNCHANGED <<scan_features, features_names>>
           ELSE /\ pc' = "returned"
                /\ scan_features' = r.values
                /\ features_names' = r.names
                /\ UNCHANGED error
    /\ UNCHANGED <<call_no, first_call>>
    /\ UNCHANGED scanVars
    /\ UNCHANGED aggVars
    /\ UNCHANGED runVars

PresentIons == {k \in DOMAIN actual_peaks : actual_peaks[k].present}

Matched ==
    IF PresentIons = {} THEN "none"
    ELSE IF PresentIons = DOMAIN actual_peaks THEN "all" ELSE "some"

\* a caller's next call for the same scan type and catalogue; it keeps the
\* names and the width of the first row it got with names
CallAgain ==
    /\ pc \in {"returned", "raised"}
    /\ call_no < MaxCalls
    /\ call_no' = call_no + 1
    /\ first_call' =
          IF pc = "returned" /\ get_names /\ ~first_call.done
          THEN [done |-> TRUE, names |-> features_names, width |-> Len(scan_features),
                matched |-> Matched]
          ELSE first_call
    /\ \E names_needed \in BOOLEAN,
          centroids \in CentroidLists(SpectrumOf(scan_type), MaxCentroids),
          present \in SUBSET (DOMAIN expected_ions_info) :
            /\ centroids = <<>> => present = {}
            /\ StartScan(scan_type, names_needed, centroids, present)
    /\ UNCHANGED aggVars
    /\ UNCHANGED runVars

NextScan ==
    \/ FitPresentPeak
    \/ FitRaises
    \/ FitAbsentPeak
    \/ CompanionPass
    \/ FormFrames
    \/ MergeAndReturn
    \/ CallAgain

SpecScan == InitScan /\ [][NextScan]_vars

----------------------------------------------------------------------------
(* Properties of extract_main_features_from_scan, under SpecScan *)

\* C1 (fixed width): a call that returns gives a value list as long as the one
\* of the caller's first call of the same catalogue and scan type, and, when it
\* generates names, the same name list, whichever expected ions were present
C1_FixedWidth ==
    (pc = "returned" /\ first_call.done) =>
        /\ Len(scan_features) = first_call.width
        /\ get_names => features_names = first_call.names
        /\ get_names => Len(features_names) = Len(scan_features)

\* a call with no ion present returned names after a first call with all present
C1_Witness ==
    /\ pc = "returned"
    /\ get_names
    /\ first_call.done
    /\ first_call.matched = "all"
    /\ Matched = "none"
    /\ Len(features_names) > 0

\* C2 (fit-failure isolation): a fit that fails on a present peak does not
\* end the scan
C2_FitFailureIsolated == ~(pc = "raised" /\ error = "FitError")

AllZero(values) == \A k \in DOMAIN values : values[k] \in {RInt(0), RInt(no_signal)}

EmptyFrameRecord(record) ==
    /\ Len(record) = 5
    /\ record[1].val = RInt(0)
    /\ record[2].val = RInt(0)
    /\ \A k \in 3..5 : AllZero(record[k].val)

\* C3 (frame completeness): with an empty centroid list the frame functions
\* return one record per configured frame, all counts and statistics zero or
\* the sentinel, and raise nothing
C3_EmptyFramesComplete ==
    (centroids_indexes = <<>> /\ pc \in {"merge", "returned", "raised"}) =>
        /\ pc # "raised"
        /\ Len(non_expected_features) = Len(NonExpectedFrames(scan_type))
        /\ \A k \in DOMAIN non_expected_features :
               EmptyFrameRecord(non_expected_features[k])
        /\ ~form_frames_and_extract_instrument_noise_features(spectrum, <<>>).raised

\* the position of ion p's record among the isotope records
IsoPos(p) == Cardinality({q \in 1..p : Len(actual_peaks[q].expected_isotopes) > 0})

\* the second loop has passed ion p, which declares isotopes
IsotopesDone(p) ==
    /\ p \in DOMAIN actual_peaks
    /\ Len(actual_peaks[p].expected_isotopes) > 0
    /\ Len(isotopic_peaks_features) >= IsoPos(p)

\* the fit of the ion whose expected m/z is mz
FitFor(mz) ==
    independent_peak_fits[CHOOSE k \in DOMAIN actual_peaks : actual_peaks[k].expected_mz = mz]

IsNullFit(fit) == fit.mz = <<-1>> /\ fit.intensity = <<-1>>

\* C7 (isotope invalidation): for a present parent with a declared isotope
\* whose fit is null, every isotopes_ratios_diffs entry is -1, the entries of
\* a missing isotope are -1, and the entries of a fitted isotope are its
\* height over the parent's height and its apex m/z minus the parent's
C7_IsotopeInvalidation ==
    \A p \in DOMAIN actual_peaks :
        LET declared == actual_peaks[p].expected_isotopes
            record == isotopic_peaks_features[IsoPos(p)]
            parent == independent_peak_fits[p]
        IN  (/\ IsotopesDone(p)
             /\ actual_peaks[p].present
             /\ \E jj \in DOMAIN declared : IsNullFit(FitFor(declared[jj])))
            =>
            /\ Len(record[3].val) = Len(declared)
            /\ \A k \in DOMAIN record[3].val : record[3].val[k] = MinusOne
            /\ Len(record[1].val) = Len(declared) - 1
            /\ Len(record[2].val) = Len(declared) - 1
            /\ \A jj \in 2..Len(declared) :
                 LET fit == FitFor(declared[jj])
                 IN  IF IsNullFit(fit)
                     THEN /\ record[1].val[jj - 1] = MinusOne
                          /\ record[2].val[jj - 1] = MinusOne
                     ELSE /\ record[1].val[jj - 1] =
                                Rat(MaxInt(fit.intensity), MaxInt(parent.intensity))
                          /\ record[1].val[jj - 1] # MinusOne
                          /\ record[2].val[jj - 1] =
                                RInt(ApexMz(fit.mz, fit.intensity)
                                     - ApexMz(parent.mz, parent.intensity))

\* parent A is present with isotope A_i1 fitted and isotope A_i2 missing
C7_Witness ==
    /\ scan_type = "normal"
    /\ IsotopesDone(1)
    /\ actual_peaks[1].present /\ actual_peaks[2].present /\ ~actual_peaks[3].present
    /\ isotopic_peaks_features[1][1].val[1] # MinusOne
    /\ isotopic_peaks_features[1][1].val[2] = MinusOne

AllMinusOne(entry) ==
    IF entry.type \in {"int", "float"} THEN entry.val = MinusOne
    ELSE \A k \in DOMAIN entry.val : entry.val[k] = MinusOne

\* the records of ion p are the null records
NullRecords(p) ==
    /\ Len(independent_peaks_features) >= p =>
          LET record == independent_peaks_features[p]
          IN  /\ record[1].key = "is_missing_" \o actual_peaks[p].id
              /\ record[1].val = RInt(1)
              /\ \A k \in 2..Len(record) : AllMinusOne(record[k])
              /\ IsNullFit(independent_peak_fits[p])
    /\ IsotopesDone(p) =>
          \A k \in 1..3 : AllMinusOne(isotopic_peaks_features[IsoPos(p)][k])
    /\ (/\ Len(actual_peaks[p].expected_fragments) > 0
        /\ pc \in {"frames", "merge", "returned"}) =>
          \E f \in DOMAIN fragmentation_peaks_features :
              /\ fragmentation_peaks_features[f][1].key =
                     "fragments_ratios_" \o actual_peaks[p].id
              /\ \A k \in 1..2 : AllMinusOne(fragmentation_peaks_features[f][k])

\* C8 (sentinel isolation): an ion that is not present gets the null record
\* (is_missing 1, everything else -1) and null isotope and fragment records;
\* the scan raises only in the fit of a present peak or in the frames of an
\* empty centroid list, never on an absent ion
C8_SentinelIsolation ==
    /\ \A p \in DOMAIN actual_peaks : ~actual_peaks[p].present => NullRecords(p)
    /\ pc = "raised" =>
          \/ error = "FitError" /\ actual_peaks[i].present
          \/ error = "IndexError" /\ centroids_indexes = <<>>

\* a scan with centroids and no ion present returned all-null peak records
C8_Witness ==
    /\ pc = "returned"
    /\ scan_type = "chemical_noise"
    /\ centroids_indexes # <<>>
    /\ PresentIons = {}
    /\ Len(independent_peaks_features) = 3
    /\ Len(isotopic_peaks_features) = 1
    /\ Len(fragmentation_peaks_features) = 1

----------------------------------------------------------------------------
(* aggregate_features, one column per step *)

\* the values a column of a scan can hold: the sentinel, zero, a positive value
AggValues == {MinusOne, RInt(0), RInt(3)}

RECURSIVE SeqsUpTo(_, _)
SeqsUpTo(S, n) ==
    IF n = 0 THEN {<<>>}
    ELSE LET shorter == SeqsUpTo(S, n - 1)
         IN  shorter \cup {Append(s, x) : s \in {t \in shorter : Len(t) = n - 1}, x \in S}

\* the names merge_features generated for a row of n values
RowNames(n) == [k \in 1..n |-> "f" \o ToString(k - 1)]

\* [v for v in feature_values if v != -1.]
FilterMissing(feature_values) ==
    SelectSeqBy(feature_values, [v \in Range(feature_values) |-> v # MinusOne])

\* float(numpy.mean(feature_values))
NumpyMean(feature_values) == RDiv(RSum(feature_values), RInt(Len(feature_values)))

\* float(numpy.std(feature_values)): the population standard deviation
NumpyStd(feature_values) ==
    LET mean == NumpyMean(feature_values)
        squares == [k \in DOMAIN feature_values |->
                       RMul(RSub(feature_values[k], mean), RSub(feature_values[k], mean))]
    IN  RSqrt(RDiv(RSum(squares), RInt(Len(feature_values))))

\* mutant: the sample standard deviation (ddof = 1)
AggregateColumn_sample_std(column) ==
    LET feature_values == FilterMissing(column)
        mean == NumpyMean(feature_values)
        squares == [k \in DOMAIN feature_values |->
                       RMul(RSub(feature_values[k], mean), RSub(feature_values[k], mean))]
    IN  IF Len(feature_values) > 1
        THEN <<mean, RSqrt(RDiv(RSum(squares), RInt(Len(feature_values) - 1)))>>
        ELSE IF Len(feature_values) = 1 THEN <<feature_values[1], RInt(0)>>
        ELSE <<MinusOne, MinusOne>>

\* mutant: the mean estimate is the sum of the values
AggregateColumn_sum_for_mean(column) ==
    LET feature_values == FilterMissing(column)
    IN  IF Len(feature_values) > 1
        THEN <<RSum(feature_values), NumpyStd(feature_values)>>
        ELSE IF Len(feature_values) = 1 THEN <<feature_values[1], RInt(0)>>
        ELSE <<MinusOne, MinusOne>>

\* mutant: the first remaining value is taken for the mean
AggregateColumn_first_for_mean(column) ==
    LET feature_values == FilterMissing(column)
    IN  IF Len(feature_values) > 1
        THEN <<feature_values[1], NumpyStd(feature_values)>>
        ELSE IF Len(feature_values) = 1 THEN <<feature_values[1], RInt(0)>>
        ELSE <<MinusOne, MinusOne>>

\* lines 723-736: (mean_estimate, dispersion_estimate) of one column
AggregateColumn(column) ==
    LET feature_values == FilterMissing(column)
    IN  IF Len(feature_values) > 1
        THEN <<NumpyMean(feature_values), NumpyStd(feature_values)>>
        ELSE IF Len(feature_values) = 1 THEN <<feature_values[1], RInt(0)>>
        ELSE <<MinusOne, MinusOne>>

\* mutant: a single scan is aggregated like any other list of scans
SingleScanResult_aggregated(scans, names) ==
    [values |-> Flatten([c \in DOMAIN scans[1] |-> AggregateColumn(<<scans[1][c]>>)]),
     names |-> Flatten([c \in DOMAIN scans[1] |->
                          <<names[c] \o "_mean", names[c] \o "_std">>])]

\* lines 709-710
SingleScanResult(scans, names) == [values |-> scans[1], names |-> names]

InitAgg ==
    /\ pc = "aggregate"
    /\ error = "none"
    /\ call_no = 1
    /\ first_call = NoCall
    /\ scan_type = "normal"
    /\ get_names = TRUE
    /\ expected_ions_info = <<>>
    /\ spectrum = SpectrumOf("normal")
    /\ centroids_indexes = <<>>
    /\ actual_peaks = <<>>
    /\ i = 1
    /\ independent_peaks_features = <<>>
    /\ independent_peak_fits = <<>>
    /\ isotopic_peaks_features = <<>>
    /\ fragmentation_peaks_features = <<>>
    /\ non_expected_features = <<>>
    /\ scan_features = <<>>
    /\ features_names = <<>>
    /\ list_of_scans_features \in SeqsUpTo(SeqsUpTo(AggValues, MaxWidth), MaxScans)
    /\ agg_names_in = IF list_of_scans_features = <<>> THEN <<>>
                      ELSE RowNames(Len(list_of_scans_features[1]))
    /\ j = 1
    /\ aggregated_main_features = <<>>
    /\ aggregated_main_features_names = <<>>
    /\ RunIdle

notAggVars == <<call_no, first_call, scan_features, features_names>>

\* lines 709-710: only one scan was processed
AggSingleScan ==
    /\ pc = "aggregate"
    /\ Len(list_of_scans_features) = 1
    /\ LET r == SingleScanResult(list_of_scans_features, agg_names_in)
       IN  /\ aggregated_main_features' = r.values
           /\ aggregated_main_features_names' = r.names
    /\ pc' = "returned"
    /\ UNCHANGED <<error, list_of_scans_features, agg_names_in, j>>
    /\ UNCHANGED notAggVars
    /\ UNCHANGED runVars
    /\ UNCHANGED scanVars

\* line 717 on an empty list: list_of_scans_features[0] raises IndexError
AggNoScan ==
    /\ pc = "aggregate"
    /\ Len(list_of_scans_features) = 0
    /\ pc' = "raised"
    /\ error' = "IndexError"
    /\ UNCHANGED aggVars
    /\ UNCHANGED notAggVars
    /\ UNCHANGED runVars
    /\ UNCHANGED scanVars

\* mutant: a scan too short for column j counts as a missing value
AggColumnPass_pad_short_scans ==
    /\ pc = "aggregate"
    /\ Len(list_of_scans_features) > 1
    /\ j <= Len(list_of_scans_features[1])
    /\ IF Len(agg_names_in) < j
       THEN /\ pc' = "raised"
            /\ error' = "IndexError"
            /\ UNCHANGED aggVars
       ELSE LET column == [s \in DOMAIN list_of_scans_features |->
                              IF Len(list_of_scans_features[s]) < j THEN MinusOne
                              ELSE list_of_scans_features[s][j]]
            IN  /\ aggregated_main_features' =
                       aggregated_main_features \o AggregateColumn(column)
                /\ aggregated_main_features_names' =
                       aggregated_main_features_names
                       \o <<agg_names_in[j] \o "_mean", agg_names_in[j] \o "_std">>
                /\ j' = j + 1
                /\ UNCHANGED <<pc, error, list_of_scans_features, agg_names_in>>
    /\ UNCHANGED notAggVars
    /\ UNCHANGED runVars
    /\ UNCHANGED scanVars

\* lines 717-741: one pass of the loop over the columns of the first scan;
\* a scan or a name list too short for column j raises IndexError
AggColumnPass ==
    /\ pc = "aggregate"
    /\ Len(list_of_scans_features) > 1
    /\ j <= Len(list_of_scans_features[1])
    /\ IF \/ \E s \in DOMAIN list_of_scans_features : Len(list_of_scans_features[s]) < j
          \/ Len(agg_names_in) < j
       THEN /\ pc' = "raised"
            /\ error' = "IndexError"
            /\ UNCHANGED aggVars
       ELSE LET column == [s \in DOMAIN list_of_scans_features |->
                              list_of_scans_features[s][j]]
            IN  /\ aggregated_main_features' =
                       aggregated_main_features \o AggregateColumn(column)
                /\ aggregated_main_features_names' =
                       aggregated_main_features_names
                       \o <<agg_names_in[j] \o "_mean", agg_names_in[j] \o "_std">>
                /\ j' = j + 1
                /\ UNCHANGED <<pc, error, list_of_scans_features, agg_names_in>>
    /\ UNCHANGED notAggVars
    /\ UNCHANGED runVars
    /\ UNCHANGED scanVars

\* line 743
AggReturn ==
    /\ pc = "aggregate"
    /\ Len(list_of_scans_features) > 1
    /\ j > Len(list_of_scans_features[1])
    /\ pc' = "returned"
    /\ UNCHANGED error
    /\ UNCHANGED aggVars
    /\ UNCHANGED notAggVars
    /\ UNCHANGED runVars
    /\ UNCHANGED scanVars

NextAgg ==
    \/ AggSingleScan
    \/ AggNoScan
    \/ AggColumnPass
    \/ AggReturn

SpecAgg == InitAgg /\ [][NextAgg]_vars

----------------------------------------------------------------------------
(* Properties of aggregate_features, under SpecAgg *)

\* column c of the scans, and what is left of it without the sentinel
ColumnOf(c) == [s \in DOMAIN list_of_scans_features |-> list_of_scans_features[s][c]]

Remaining(c) == SelectSeq(ColumnOf(c), LAMBDA v : v # MinusOne)

\* the square of a dispersion estimate
Squared(x) == IF Len(x) = 3 THEN <<x[1], x[2]>> ELSE RMul(x, x)

IsMeanOf(m, values) == RMul(m, RInt(Len(values))) = RSum(values)

\* d >= 0 and d * d is the mean squared distance of the values to their mean m
IsPopulationStdOf(d, m, values) ==
    /\ d[1] >= 0
    /\ RMul(Squared(d), RInt(Len(values))) =
           RSum([k \in DOMAIN values |-> RMul(RSub(values[k], m), RSub(values[k], m))])

\* C4 (aggregation case analysis): with two or more scans, after column c the
\* output holds at 2c-1 and 2c the mean and population standard deviation of
\* the column's values other than -1 (the value and 0 if one is left, -1 and
\* -1 if none), named <name>_mean and <name>_std, two per column in order
C4_AggregationCases ==
    (Len(list_of_scans_features) >= 2 /\ pc \in {"aggregate", "returned"}) =>
        /\ Len(aggregated_main_features) = 2 * (j - 1)
        /\ Len(aggregated_main_features_names) = 2 * (j - 1)
        /\ pc = "returned" => j - 1 = Len(list_of_scans_features[1])
        /\ \A c \in 1..(j - 1) :
             LET left == Remaining(c)
                 mean == aggregated_main_features[2 * c - 1]
                 std == aggregated_main_features[2 * c]
             IN  /\ Len(left) >= 2 => IsMeanOf(mean, left) /\ IsPopulationStdOf(std, mean, left)
                 /\ Len(left) = 1 => mean = left[1] /\ std = RInt(0)
                 /\ Len(left) = 0 => mean = MinusOne /\ std = MinusOne
                 /\ aggregated_main_features_names[2 * c - 1] = agg_names_in[c] \o "_mean"
                 /\ aggregated_main_features_names[2 * c] = agg_names_in[c] \o "_std"

\* two scans of two columns returned: one column with both values left and
\* different, one with a single value left
C4_Witness ==
    /\ pc = "returned"
    /\ Len(list_of_scans_features) = 2
    /\ j = 3
    /\ Len(Remaining(1)) = 2 /\ ColumnOf(1)[1] # ColumnOf(1)[2]
    /\ Len(Remaining(2)) = 1

IdenticalPair ==
    /\ pc = "returned"
    /\ Len(list_of_scans_features) = 2
    /\ list_of_scans_features[1] = list_of_scans_features[2]

\* C5 as stated: two identical scans give (value, 0) for every column
C5_IdenticalScans_AsStated ==
    IdenticalPair =>
        \A c \in DOMAIN list_of_scans_features[1] :
            /\ aggregated_main_features[2 * c - 1] = list_of_scans_features[1][c]
            /\ aggregated_main_features[2 * c] = RInt(0)

\* C5 (amended): two identical scans give (value, 0) for every column whose
\* value is not -1 and (-1, -1) for every column whose value is -1
C5_IdenticalScans ==
    IdenticalPair =>
        /\ Len(aggregated_main_features) = 2 * Len(list_of_scans_features[1])
        /\ \A c \in DOMAIN list_of_scans_features[1] :
             /\ aggregated_main_features[2 * c - 1] = list_of_scans_features[1][c]
             /\ aggregated_main_features[2 * c] =
                   IF list_of_scans_features[1][c] = MinusOne THEN MinusOne ELSE RInt(0)

\* two identical scans with a sentinel column and a positive column returned
C5_Witness ==
    /\ IdenticalPair
    /\ list_of_scans_features[1] = <<MinusOne, RInt(3)>>

\* C6: a single scan comes back unchanged, with the names as given
C6_SingleScanUnchanged ==
    (pc = "returned" /\ Len(list_of_scans_features) = 1) =>
        /\ aggregated_main_features = list_of_scans_features[1]
        /\ aggregated_main_features_names = agg_names_in

\* a single scan of two values returned
C6_Witness ==
    /\ pc = "returned"
    /\ Len(list_of_scans_features) = 1
    /\ Len(list_of_scans_features[1]) = 2
    /\ Len(aggregated_main_features) = 2

----------------------------------------------------------------------------
(* The two branches of the first loop for one peak: its fitted record and
   its null record *)

InitPeak ==
    /\ pc = "peak"
    /\ error = "none"
    /\ call_no = 1
    /\ first_call = NoCall
    /\ scan_type \in ScanTypes
    /\ get_names = TRUE
    /\ expected_ions_info = parse_expected_ions(scan_type)
    /\ spectrum = SpectrumOf(scan_type)
    /\ centroids_indexes \in CentroidLists(spectrum, MaxPeakCentroids) \ {<<>>}
    /\ \E k \in DOMAIN expected_ions_info :
           actual_peaks = <<find_closest_centroids(spectrum, centroids_indexes,
                                                   expected_ions_info, {k})[k]>>
    /\ i = 1
    /\ independent_peaks_features = <<>>
    /\ independent_peak_fits = <<>>
    /\ isotopic_peaks_features = <<>>
    /\ fragmentation_peaks_features = <<>>
    /\ non_expected_features = <<>>
    /\ scan_features = <<>>
    /\ features_names = <<>>
    /\ AggIdle
    /\ RunIdle

peakVars == <<error, call_no, first_call, scan_type, get_names, expected_ions_info,
              spectrum, centroids_indexes, actual_peaks, i, isotopic_peaks_features,
              fragmentation_peaks_features, non_expected_features, scan_features,
              features_names>>

\* lines 653-656 for the peak, with any fit lmfit can return
PeakFitted ==
    /\ pc = "peak"
    /\ \E g_out \in FitResults(spectrum, actual_peaks[1].index, MaxFitShift, MaxResolution) :
         LET r == fit_peak_and_extract_features(actual_peaks[1], spectrum,
                                                centroids_indexes, g_out)
         IN  /\ independent_peaks_features' = <<r.peak_features>>
             /\ independent_peak_fits' = <<r.peak_fit>>
    /\ pc' = "peak_null"
    /\ UNCHANGED peakVars
    /\ UNCHANGED aggVars
    /\ UNCHANGED runVars

\* lines 662-666 for the same peak
PeakNull ==
    /\ pc = "peak_null"
    /\ independent_peaks_features' =
           Append(independent_peaks_features, get_null_peak_features(actual_peaks[1].id))
    /\ independent_peak_fits' = Append(independent_peak_fits, get_null_peak_fit(actual_peaks[1]))
    /\ pc' = "returned"
    /\ UNCHANGED peakVars
    /\ UNCHANGED aggVars
    /\ UNCHANGED runVars

NextPeak ==
    \/ PeakFitted
    \/ PeakNull

SpecPeak == InitPeak /\ [][NextPeak]_vars

\* the centroids between the fitted apex and the right edge of the fitted window
CentroidsInRange ==
    LET fit == independent_peak_fits[1]
    IN  {k \in DOMAIN centroids_indexes :
            /\ spectrum.mz[centroids_indexes[k]] >= ApexMz(fit.mz, fit.intensity)
            /\ spectrum.mz[centroids_indexes[k]] <= fit.mz[Len(fit.mz)]}

IsVector(entry) == entry.type \in {"list", "ndarray"}

\* C9: the fitted and the null record of a peak have the same keys in the same
\* order, vectors under the same keys with the same lengths, and
\* subsequent_peaks_ratios has max_sp_number entries in both
C9_SameKeysAndLengths ==
    pc = "returned" =>
        LET fitted == independent_peaks_features[1]
            null == independent_peaks_features[2]
        IN  /\ Keys(fitted) = Keys(null)
            /\ \A k \in DOMAIN fitted :
                 /\ IsVector(fitted[k]) = IsVector(null[k])
                 /\ IsVector(fitted[k]) => Len(fitted[k].val) = Len(null[k].val)
            /\ fitted[9].key = "subsequent_peaks_ratios_" \o actual_peaks[1].id
            /\ Len(fitted[9].val) = max_sp_number
            /\ Len(null[9].val) = max_sp_number

\* more centroids than max_sp_number lie in the range of the fitted peak
C9_Witness ==
    /\ pc = "returned"
    /\ Cardinality(CentroidsInRange) > max_sp_number
    /\ independent_peaks_features[1][9].val[max_sp_number] # MinusOne

----------------------------------------------------------------------------
(* merge_features on any four lists of records *)

ArrayF(key, vs) == [key |-> key, type |-> "ndarray", val |-> vs]

OtherF(key) == [key |-> key, type |-> "other", val |-> <<>>]

\* lists of records holding scalars, vectors, arrays and values of other types
RecordLists ==
    { <<>>,
      << <<IntF("n", RInt(1))>> >>,
      << <<FloatF("x", <<1, 2>>), ListF("v", <<RInt(2), MinusOne>>)>> >>,
      << <<ArrayF("a", <<RInt(0)>>)>> >>,
      << <<OtherF("s")>> >>,
      << <<IntF("n", RInt(1)), OtherF("s")>> >>,
      << <<ListF("v", <<>>)>>, <<OtherF("s"), FloatF("x", RInt(3))>> >> }

InitMerge ==
    /\ pc = "merge"
    /\ error = "none"
    /\ call_no = 1
    /\ first_call = NoCall
    /\ scan_type = "normal"
    /\ get_names \in BOOLEAN
    /\ expected_ions_info = <<>>
    /\ spectrum = SpectrumOf("normal")
    /\ centroids_indexes = <<>>
    /\ actual_peaks = <<>>
    /\ i = 1
    /\ independent_peaks_features \in RecordLists
    /\ independent_peak_fits = <<>>
    /\ isotopic_peaks_features \in RecordLists
    /\ fragmentation_peaks_features \in RecordLists
    /\ non_expected_features \in RecordLists
    /\ scan_features = <<>>
    /\ features_names = <<>>
    /\ AggIdle
    /\ RunIdle

NextMerge == MergeAndReturn

SpecMerge == InitMerge /\ [][NextMerge]_vars

HasUnsupported(records) ==
    \E r \in DOMAIN records : \E k \in DOMAIN records[r] : records[r][k].type = "other"

\* C10: when a record holds a value of an unsupported type, merge_features
\* raises ValueError, with or without name generation, and returns no row
C10_UnsupportedTypeRaises ==
    (/\ pc # "merge"
     /\ \/ HasUnsupported(independent_peaks_features)
        \/ HasUnsupported(isotopic_peaks_features)
        \/ HasUnsupported(fragmentation_peaks_features)
        \/ HasUnsupported(non_expected_features))
    => /\ pc = "raised"
       /\ error = "ValueError"
       /\ scan_features = <<>>
       /\ features_names = <<>>

\* without name generation, the last list alone holds an unsupported value
C10_Witness ==
    /\ pc = "raised"
    /\ error = "ValueError"
    /\ ~get_names
    /\ ~HasUnsupported(independent_peaks_features)
    /\ ~HasUnsupported(isotopic_peaks_features)
    /\ ~HasUnsupported(fragmentation_peaks_features)
    /\ HasUnsupported(non_expected_features)
    /\ independent_peaks_features # <<>>

\* the entries of the four lists in the order of the arguments of merge_features
EntriesInOrder ==
    Flatten(independent_peaks_features) \o Flatten(isotopic_peaks_features)
        \o Flatten(fragmentation_peaks_features) \o Flatten(non_expected_features)

IsScalar(entry) == entry.type \in {"int", "float"}

ColumnsOfEntry(entry) == IF IsScalar(entry) THEN 1 ELSE Len(entry.val)

\* the number of columns taken by the first n entries
RECURSIVE ColumnsBefore(_, _)
ColumnsBefore(entries, n) ==
    IF n = 0 THEN 0 ELSE ColumnsBefore(entries, n - 1) + ColumnsOfEntry(entries[n])

\* C11: with name generation on, the row holds the independent, isotope,
\* fragment and frame records in that order, every record in list order and
\* every key in record order; a scalar gives one column named by its key, a
\* vector of length n gives n columns key_0 .. key_(n-1); there are as many
\* names as values and name i describes value i
C11_MergeOrderAligned ==
    (pc = "returned" /\ get_names) =>
        LET entries == EntriesInOrder
        IN  /\ Len(scan_features) = Len(features_names)
            /\ Len(scan_features) = ColumnsBefore(entries, Len(entries))
            /\ \A k \in DOMAIN entries :
                 LET at == ColumnsBefore(entries, k - 1)
                 IN  IF IsScalar(entries[k])
                     THEN /\ scan_features[at + 1] = entries[k].val
                          /\ features_names[at + 1] = entries[k].key
                     ELSE \A e \in 1..Len(entries[k].val) :
                            /\ scan_features[at + e] = entries[k].val[e]
                            /\ features_names[at + e] =
                                   entries[k].key \o "_" \o ToString(e - 1)

\* a row of four non-empty lists, the isotope and fragment records differing,
\* with a vector of two values among them
C11_Witness ==
    /\ pc = "returned"
    /\ get_names
    /\ independent_peaks_features # <<>>
    /\ isotopic_peaks_features # <<>>
    /\ fragmentation_peaks_features # <<>>
    /\ non_expected_features # <<>>
    /\ isotopic_peaks_features # fragmentation_peaks_features
    /\ \E k \in DOMAIN EntriesInOrder :
         ~IsScalar(EntriesInOrder[k]) /\ Len(EntriesInOrder[k].val) = 2

----------------------------------------------------------------------------
(* extract_features_from_ms_run: the loop over the representative scans, the
   aggregation and the hand-over of the row *)

MaxRunScans == 2       \* representative scans of a run

\* the spectra a representative scan can hold: the centroids found in it and
\* the expected ions matched to them
RunScanInputs ==
    { [centroids |-> <<>>, present |-> {}],
      [centroids |-> <<4>>, present |-> {}],
      [centroids |-> <<2>>, present |-> {2}],
      [centroids |-> <<1, 2, 4>>, present |-> {1, 2}] }

\* mutant: names are asked of every scan
NamesNeeded_always(names) == TRUE

\* line 801: names are asked of a scan as long as the run holds none
NamesNeeded(names) == ~(Len(names) > 0)

\* mutant: the loop ends one scan early
ScansLeft_but_last(done, indexes) == Len(done) + 1 < Len(indexes)

\* line 799: the loop goes on while a scan index is left
ScansLeft(done, indexes) == Len(done) < Len(indexes)

InitRun ==
    /\ pc = "run"
    /\ error = "none"
    /\ call_no = 0
    /\ first_call = NoCall
    /\ scan_type = "normal"
    /\ get_names = TRUE
    /\ expected_ions_info = <<>>
    /\ spectrum = SpectrumOf("normal")
    /\ centroids_indexes = <<>>
    /\ actual_peaks = <<>>
    /\ i = 1
    /\ independent_peaks_features = <<>>
    /\ independent_peak_fits = <<>>
    /\ isotopic_peaks_features = <<>>
    /\ fragmentation_peaks_features = <<>>
    /\ non_expected_features = <<>>
    /\ scan_features = <<>>
    /\ features_names = <<>>
    /\ AggIdle
    /\ run_pc = "loop"
    /\ main_features_scans_indexes \in {[k \in 1..n |-> k] : n \in 0..MaxRunScans}
    /\ main_features = <<>>
    /\ main_features_names = <<>>
    /\ feature_matrix = <<>>

\* lines 799-804: the next scan is handed to extract_main_features_from_scan
RunStartScan ==
    /\ run_pc = "loop"
    /\ ScansLeft(main_features, main_features_scans_indexes)
    /\ \E input \in RunScanInputs :
         StartScan("normal", NamesNeeded(main_features_names), input.centroids,
                   input.present)
    /\ call_no' = call_no + 1
    /\ run_pc' = "scan"
    /\ UNCHANGED <<first_call, main_features_scans_indexes, main_features,
                   main_features_names, feature_matrix>>
    /\ UNCHANGED aggVars

\* lines 802-806: the row of the scan is kept, and its names when asked for
RunScanReturned ==
    /\ run_pc = "scan"
    /\ pc = "returned"
    /\ main_features' = Append(main_features, scan_features)
    /\ main_features_names' = IF get_names THEN features_names ELSE main_features_names
    /\ run_pc' = "loop"
    /\ pc' = "run"
    /\ UNCHANGED <<error, call_no, first_call, scan_features, features_names,
                   main_features_scans_indexes, feature_matrix>>
    /\ UNCHANGED scanVars
    /\ UNCHANGED aggVars

\* line 809: aggregate_features is called with the rows and the names
RunAggregateCall ==
    /\ run_pc = "loop"
    /\ ~ScansLeft(main_features, main_features_scans_indexes)
    /\ list_of_scans_features' = main_features
    /\ agg_names_in' = main_features_names
    /\ j' = 1
    /\ aggregated_main_features' = <<>>
    /\ aggregated_main_features_names' = <<>>
    /\ run_pc' = "aggregate"
    /\ pc' = "aggregate"
    /\ UNCHANGED <<error, call_no, first_call, scan_features, features_names,
                   main_features_scans_indexes, main_features, main_features_names,
                   feature_matrix>>
    /\ UNCHANGED scanVars

\* lines 841-856: the row is composed and handed to update_feature_matrix
RunUpdateFeatureMatrix ==
    /\ run_pc = "aggregate"
    /\ pc = "returned"
    /\ feature_matrix' =
           Append(feature_matrix,
                  [feature_matrix_row |-> <<>> \o aggregated_main_features,
                   feature_matrix_row_names |-> <<>> \o aggregated_main_features_names])
    /\ run_pc' = "done"
    /\ pc' = "run"
    /\ UNCHANGED <<error, call_no, first_call, scan_features, features_names,
                   main_features_scans_indexes, main_features, main_features_names>>
    /\ UNCHANGED scanVars
    /\ UNCHANGED aggVars

NextRun ==
    \/ RunStartScan
    \/ FitPresentPeak
    \/ FitRaises
    \/ FitAbsentPeak
    \/ CompanionPass
    \/ FormFrames
    \/ MergeAndReturn
    \/ RunScanReturned
    \/ RunAggregateCall
    \/ AggSingleScan
    \/ AggNoScan
    \/ AggColumnPass
    \/ AggReturn
    \/ RunUpdateFeatureMatrix

SpecRun == InitRun /\ [][NextRun]_vars

----------------------------------------------------------------------------
(* Properties of extract_features_from_ms_run, under SpecRun *)

\* C12 (the name list is written once): the names the run keeps are those
\* generated by its first scan; every later scan is called with get_names
\* off, and the kept list is never assigned again nor changed
C12_NamesWrittenOnce ==
    [][/\ (main_features = <<>> /\ main_features' # <<>>)
            => (main_features_names' = features_names /\ main_features_names' # <<>>)
       /\ (main_features_names # <<>>) => (main_features_names' = main_features_names)
       /\ (run_pc' = "scan" /\ main_features' # <<>>) => ~get_names'
       /\ (run_pc' = "aggregate" /\ main_features' # <<>>)
            => agg_names_in' = main_features_names']_vars

\* a second scan has returned its row to a run that kept the first scan's names
C12_Witness ==
    /\ run_pc = "loop"
    /\ Len(main_features) = 2
    /\ ~get_names
    /\ main_features_names # <<>>
    /\ features_names = <<>>

\* C13 (one row or failure): update_feature_matrix is called at most once,
\* only after every representative scan was processed and aggregated, never
\* when a scan or the aggregation raised, and with as many values as names
C13_OneRowOrFailure ==
    /\ Len(feature_matrix) <= 1
    /\ (pc = "raised" \/ error # "none") => feature_matrix = <<>>
    /\ feature_matrix # <<>> =>
         /\ run_pc = "done"
         /\ Len(main_features) = Len(main_features_scans_indexes)
         /\ list_of_scans_features = main_features
         /\ feature_matrix[1].feature_matrix_row = aggregated_main_features
         /\ feature_matrix[1].feature_matrix_row_names = aggregated_main_features_names
         /\ Len(feature_matrix[1].feature_matrix_row)
                = Len(feature_matrix[1].feature_matrix_row_names)
         /\ Len(feature_matrix[1].feature_matrix_row) > 0

\* the row of a run of two scans has been handed over
C13_Witness ==
    /\ run_pc = "done"
    /\ Len(feature_matrix) = 1
    /\ Len(main_features) = 2
    /\ Len(feature_matrix[1].feature_matrix_row) = 2 * Len(main_features[1])

----------------------------------------------------------------------------
(* The frames of a chemical-noise scan and of a background scan *)

MaxFrameCentroids == 3 \* centroids of the spectrum the frames are cut from

\* a spectrum over both frames; every intensity is another power of two, so
\* that a sum of intensities tells which centroids were collected
FrameSpectrum ==
    [mz |-> <<50, 51, 52, 53, 54, 55>>, intensity |-> <<1, 2, 4, 8, 16, 32>>]

InitFrame ==
    /\ pc \in {"frames", "background"}
    /\ error = "none"
    /\ call_no = 1
    /\ first_call = NoCall
    /\ scan_type = "chemical_noise"
    /\ get_names \in BOOLEAN
    /\ expected_ions_info = parse_expected_ions(scan_type)
    /\ spectrum = FrameSpectrum
    /\ centroids_indexes \in CentroidLists(spectrum, MaxFrameCentroids)
    /\ \E present \in SUBSET (DOMAIN expected_ions_info) :
           /\ (centroids_indexes = <<>> \/ pc = "background") => present = {}
           /\ actual_peaks = find_closest_centroids(spectrum, centroids_indexes,
                                                    expected_ions_info, present)
    /\ i = 1
    /\ independent_peaks_features = <<>>
    /\ independent_peak_fits = <<>>
    /\ isotopic_peaks_features = <<>>
    /\ fragmentation_peaks_features = <<>>
    /\ non_expected_features = <<>>
    /\ scan_features = <<>>
    /\ features_names = <<>>
    /\ AggIdle
    /\ RunIdle

\* extract_background_features_from_scan, lines 611-615
ExtractBackgroundFeatures ==
    /\ pc = "background"
    /\ LET r == form_frames_and_extract_instrument_noise_features(spectrum,
                                                                  centroids_indexes)
           row == extend_scan_features([values |-> <<>>, names |-> <<>>, raised |-> "none"],
                                       r.features, "instrument noise", get_names)
       IN  IF r.raised
           THEN /\ pc' = "raised"
                /\ error' = "IndexError"
                /\ UNCHANGED <<non_expected_features, scan_features, features_names>>
           ELSE /\ pc' = "returned"
                /\ non_expected_features' = r.features
                /\ scan_features' = row.values
                /\ features_names' = row.names
                /\ UNCHANGED error
    /\ UNCHANGED <<call_no, first_call, scan_type, get_names, expected_ions_info,
                   spectrum, centroids_indexes, actual_peaks, i, independent_peaks_features,
                   independent_peak_fits, isotopic_peaks_features,
                   fragmentation_peaks_features>>
    /\ UNCHANGED aggVars
    /\ UNCHANGED runVars

NextFrame ==
    \/ FormFrames
    \/ ExtractBackgroundFeatures

SpecFrame == InitFrame /\ [][NextFrame]_vars

\* the frames the records of non_expected_features were made for
FramesOfRecords ==
    IF pc = "merge" THEN NonExpectedFrames(scan_type)
    ELSE FramesFrom(FramesOrigin, instrument_noise_mz_frame_size,
                    instrument_noise_scan_number_of_frames)

IsMatched(index) ==
    \E p \in DOMAIN actual_peaks : actual_peaks[p].present /\ actual_peaks[p].index = index

\* the spectrum indexes of the centroids a frame has to collect
Qualifying(mz_frame) ==
    {centroids_indexes[k] : k \in {n \in DOMAIN centroids_indexes :
        /\ mz_frame[1] < spectrum.mz[centroids_indexes[n]]
        /\ spectrum.mz[centroids_indexes[n]] < mz_frame[2]
        /\ (pc = "merge" => ~IsMatched(centroids_indexes[n]))}}

RECURSIVE SumOver(_, _)
SumOver(f, S) ==
    IF S = {} THEN 0 ELSE LET x == CHOOSE y \in S : TRUE IN f[x] + SumOver(f, S \ {x})

\* number_of_peaks and intensity_sum of the record of frame f
NumberOfPeaks(f) == non_expected_features[f][1].val[1]

IntensitySum(f) == non_expected_features[f][2].val[1]

\* the spectrum indexes whose intensities make up intensity_sum of frame f
Collected(f) ==
    {x \in DOMAIN spectrum.mz : (IntensitySum(f) \div spectrum.intensity[x]) % 2 = 1}

\* C14 (frame collection is complete): each frame record counts and sums
\* exactly the centroids strictly inside the frame that are no matched peak
\* (for a background scan: all centroids strictly inside the frame)
C14_FrameCollectionComplete ==
    pc \in {"merge", "returned"} =>
        \A f \in DOMAIN non_expected_features :
            /\ NumberOfPeaks(f) = Cardinality(Qualifying(FramesOfRecords[f]))
            /\ IntensitySum(f) = SumOver(spectrum.intensity, Qualifying(FramesOfRecords[f]))

\* C15 (matched peaks are no noise): no frame record holds the intensity of
\* a centroid matched to a present expected peak or of a centroid outside
\* the frame, and no centroid is collected by two frames
C15_MatchedPeaksExcluded ==
    pc = "merge" =>
        /\ \A f \in DOMAIN non_expected_features :
             /\ Collected(f) \subseteq Qualifying(FramesOfRecords[f])
             /\ NumberOfPeaks(f) = Cardinality(Collected(f))
             /\ IntensitySum(f) = SumOver(spectrum.intensity, Collected(f))
        /\ \A f, g \in DOMAIN non_expected_features :
             f # g => Collected(f) \cap Collected(g) = {}

\* a frame with a matched centroid and a collected centroid strictly inside it
C15_Witness ==
    /\ pc = "merge"
    /\ \E f \in DOMAIN non_expected_features :
         /\ Collected(f) # {}
         /\ \E k \in DOMAIN centroids_indexes :
              /\ k < Len(centroids_indexes)
              /\ IsMatched(centroids_indexes[k])
              /\ FramesOfRecords[f][1] < spectrum.mz[centroids_indexes[k]]
              /\ spectrum.mz[centroids_indexes[k]] < FramesOfRecords[f][2]

\* the centroids strictly between the fitted apex and the right edge of the
\* fitted window
CentroidsStrictlyInside ==
    LET fit == independent_peak_fits[1]
    IN  {k \in DOMAIN centroids_indexes :
            /\ spectrum.mz[centroids_indexes[k]] > ApexMz(fit.mz, fit.intensity)
            /\ spectrum.mz[centroids_indexes[k]] < fit.mz[Len(fit.mz)]}

\* C16 (subsequent peaks lie strictly inside the interval): the record counts,
\* up to max_sp_number, the centroids strictly between the apex and the right
\* edge of the fitted window; a centroid on the apex or on the edge is left out
C16_StrictlyInside ==
    pc = "returned" =>
        LET fitted == independent_peaks_features[1]
            inside == Cardinality(CentroidsStrictlyInside)
        IN  /\ fitted[8].key = "subsequent_peaks_number_" \o actual_peaks[1].id
            /\ fitted[8].val = RInt(IF inside > max_sp_number THEN max_sp_number ELSE inside)

\* C17 (the fit-vs-theory mass accuracy is signed): absolute_mass_accuracy is
\* the fitted peak m/z minus the declared m/z of the ion, negative when the
\* fit lies below it, and ppm is that difference over the declared m/z
\* times 10^6
C17_SignedMassAccuracy ==
    pc = "returned" =>
        LET fitted == independent_peaks_features[1]
            fit == independent_peak_fits[1]
            diff == ApexMz(fit.mz, fit.intensity) - actual_peaks[1].expected_mz
        IN  /\ fitted[5].key = "absolute_mass_accuracy_" \o actual_peaks[1].id
            /\ fitted[5].val = RInt(diff)
            /\ fitted[6].key = "ppm_" \o actual_peaks[1].id
            /\ fitted[6].val = Rat(diff * 1000000, actual_peaks[1].expected_mz)

\* the position of ion p's record among the fragment records
FragPos(p) == Cardinality({q \in 1..p : Len(actual_peaks[q].expected_fragments) > 0})

\* the second loop has passed ion p, which declares fragments
FragmentsDone(p) ==
    /\ p \in DOMAIN actual_peaks
    /\ Len(actual_peaks[p].expected_fragments) > 0
    /\ Len(fragmentation_peaks_features) >= FragPos(p)

\* ratios and mass differences of the declared companions after the first:
\* sign is 1 for companion minus parent, -1 for parent minus companion
CompanionEntries(record, declared, parent, sign) ==
    /\ Len(record[1].val) = Len(declared) - 1
    /\ Len(record[2].val) = Len(declared) - 1
    /\ \A jj \in 2..Len(declared) :
         LET fit == FitFor(declared[jj])
         IN  IF IsNullFit(fit)
             THEN /\ record[1].val[jj - 1] = MinusOne
                  /\ record[2].val[jj - 1] = MinusOne
             ELSE /\ record[1].val[jj - 1] =
                        Rat(MaxInt(fit.intensity), MaxInt(parent.intensity))
                  /\ record[2].val[jj - 1] =
                        RInt(sign * (ApexMz(fit.mz, fit.intensity)
                                     - ApexMz(parent.mz, parent.intensity)))

\* C18 (companion outputs): a present parent with k declared isotopes
\* (fragments) has k-1 ratios and k-1 mass differences, one per declared
\* companion after the first, in declared order; the mass difference is
\* companion minus parent for an isotope and parent minus companion for a
\* fragment; the null records of the ion have the same lengths
C18_CompanionOutputs ==
    \A p \in DOMAIN actual_peaks :
        /\ (IsotopesDone(p) /\ actual_peaks[p].present) =>
             LET record == isotopic_peaks_features[IsoPos(p)]
                 null == get_null_isotopic_features(actual_peaks[p])
             IN  /\ CompanionEntries(record, actual_peaks[p].expected_isotopes,
                                     independent_peak_fits[p], 1)
                 /\ record[1].key = "isotopes_ratios_" \o actual_peaks[p].id
                 /\ record[2].key = "isotopes_mass_diffs_" \o actual_peaks[p].id
                 /\ Len(null[1].val) = Len(record[1].val)
                 /\ Len(null[2].val) = Len(record[2].val)
        /\ (FragmentsDone(p) /\ actual_peaks[p].present) =>
             LET record == fragmentation_peaks_features[FragPos(p)]
                 null == get_null_fragmentation_features(actual_peaks[p])
             IN  /\ CompanionEntries(record, actual_peaks[p].expected_fragments,
                                     independent_peak_fits[p], -1)
                 /\ record[1].key = "fragments_ratios_" \o actual_peaks[p].id
                 /\ record[2].key = "fragments_mass_diffs_" \o actual_peaks[p].id
                 /\ Len(null[1].val) = Len(record[1].val)
                 /\ Len(null[2].val) = Len(record[2].val)

\* parent D and its fragment C are fitted on different centroids
C18_Witness ==
    /\ scan_type = "chemical_noise"
    /\ FragmentsDone(3)
    /\ actual_peaks[3].present /\ actual_peaks[1].present
    /\ actual_peaks[3].index # actual_peaks[1].index
    /\ fragmentation_peaks_features[FragPos(3)][1].val[1] # MinusOne
    /\ fragmentation_peaks_features[FragPos(3)][2].val[1] # RInt(0)

----------------------------------------------------------------------------
(* The symmetry of a peak, line 34, on any two tail areas *)

MaxAuc == 3            \* largest numerator of a tail area

MaxAucDenominator == 2 \* largest denominator of a tail area

\* tail areas: negative, zero and positive rationals
AucValues == {Rat(n, d) : n \in (-MaxAuc)..MaxAuc, d \in 1..MaxAucDenominator}

InitSymmetry ==
    /\ pc = "symmetry"
    /\ error = "none"
    /\ call_no = 1
    /\ first_call = NoCall
    /\ scan_type = "normal"
    /\ get_names = TRUE
    /\ expected_ions_info = <<>>
    /\ spectrum = SpectrumOf("normal")
    /\ centroids_indexes = <<>>
    /\ actual_peaks = <<>>
    /\ i = 1
    /\ \E left_tail_auc \in AucValues, right_tail_auc \in AucValues :
         independent_peaks_features =
             << <<FloatF("left_tail_auc_", left_tail_auc),
                  FloatF("right_tail_auc_", right_tail_auc)>> >>
    /\ independent_peak_fits = <<>>
    /\ isotopic_peaks_features = <<>>
    /\ fragmentation_peaks_features = <<>>
    /\ non_expected_features = <<>>
    /\ scan_features = <<>>
    /\ features_names = <<>>
    /\ AggIdle
    /\ RunIdle

\* line 34 and line 55: the symmetry of the two tail areas joins the record
ComputeSymmetry ==
    /\ pc = "symmetry"
    /\ LET record == independent_peaks_features[1]
       IN  independent_peaks_features' =
               <<Append(record, FloatF("symmetry_", Symmetry(record[1].val, record[2].val)))>>
    /\ pc' = "returned"
    /\ UNCHANGED <<error, call_no, first_call, scan_type, get_names, expected_ions_info,
                   spectrum, centroids_indexes, actual_peaks, i, independent_peak_fits,
                   isotopic_peaks_features, fragmentation_peaks_features,
                   non_expected_features, scan_features, features_names>>
    /\ UNCHANGED aggVars
    /\ UNCHANGED runVars

NextSymmetry == ComputeSymmetry

SpecSymmetry == InitSymmetry /\ [][NextSymmetry]_vars

IsPositive(a) == a[1] > 0 /\ a[2] > 0

\* C19 (symmetry bound): symmetry times twice the larger tail area is the sum
\* of the two tail areas; for positive tail areas it is greater than 0 and at
\* most 1, and it is exactly 1 when the two are equal
C19_SymmetryBound ==
    pc = "returned" =>
        LET left == independent_peaks_features[1][1].val
            right == independent_peaks_features[1][2].val
            symmetry == independent_peaks_features[1][3].val
            larger == IF left[1] * right[2] >= right[1] * left[2] THEN left ELSE right
        IN  /\ larger[1] # 0 =>
                 /\ symmetry[2] > 0
                 /\ symmetry[1] * 2 * larger[1] * left[2] * right[2]
                        = symmetry[2] * larger[2] * (left[1] * right[2] + right[1] * left[2])
            /\ (IsPositive(left) /\ IsPositive(right)) =>
                 /\ symmetry[1] > 0
                 /\ symmetry[1] <= symmetry[2]
                 /\ left = right => symmetry = RInt(1)

\* two positive tail areas that differ
C19_Witness ==
    /\ pc = "returned"
    /\ IsPositive(independent_peaks_features[1][1].val)
    /\ IsPositive(independent_peaks_features[1][2].val)
    /\ independent_peaks_features[1][1].val # independent_peaks_features[1][2].val
    /\ RLess(independent_peaks_features[1][3].val, RInt(1))

----------------------------------------------------------------------------
(* aggregate_features on a reordered list of scans, under SpecAgg *)

\* lines 717-741 for two or more scans: two values per column of the first scan
AggregatedValues(scans) ==
    Flatten([c \in DOMAIN scans[1] |->
                AggregateColumn([s \in DOMAIN scans |-> scans[s][c]])])

\* the orders a list of n scans can be handed over in
Orders(n) == {p \in [1..n -> 1..n] : \A a, b \in 1..n : a # b => p[a] # p[b]}

EqualWidth(scans) == \A s \in DOMAIN scans : Len(scans[s]) = Len(scans[1])

----------------------------------------------------------------------------
(* The list of peak fits against the list of actual peaks, under SpecScan *)

\* the first loop of extract_main_features_from_scan has passed every peak
FitLoopDone == pc \in {"companion_loop", "frames", "merge", "returned"}

\* line 372: peak_fits[k]['mz'][0] != -1 tells a fitted peak from a missing one
FirstCurveElement(fit) == fit.mz[1]

\* C21 (the peak fits are parallel to the actual peaks): the fits and the
\* per-peak feature records are as many as the peaks the first loop has
\* passed, all of them once the loop is over; fit k and record k carry the
\* expected m/z and the id of actual peak k, and fit k is the null fit, with
\* first curve element -1, exactly when actual peak k is not present
C21_FitsParallel ==
    /\ Len(independent_peak_fits) = Len(independent_peaks_features)
    /\ Len(independent_peak_fits) <= Len(actual_peaks)
    /\ pc = "fit_loop" => Len(independent_peak_fits) = i - 1
    /\ FitLoopDone => Len(independent_peak_fits) = Len(actual_peaks)
    /\ \A k \in DOMAIN independent_peak_fits :
         LET fit == independent_peak_fits[k]
             record == independent_peaks_features[k]
             peak == actual_peaks[k]
         IN  /\ fit.expected_mz = peak.expected_mz
             /\ fit.peak_id = peak.id
             /\ record[1].key = "is_missing_" \o peak.id
             /\ record[1].val = BoolInt(~peak.present)
             /\ IsNullFit(fit) <=> ~peak.present
             /\ FirstCurveElement(fit) = -1 <=> ~peak.present
             /\ peak.present => /\ Len(fit.mz) = Len(fit.intensity)
                                /\ fit.info.model = "gaussian"

\* the first loop is over for a catalogue of three ions of which the first
\* and the last are present and the second is missing
C21_Witness ==
    /\ FitLoopDone
    /\ Len(actual_peaks) = 3
    /\ actual_peaks[1].present /\ ~actual_peaks[2].present /\ actual_peaks[3].present
    /\ FirstCurveElement(independent_peak_fits[1]) # -1
    /\ FirstCurveElement(independent_peak_fits[2]) = -1
    /\ FirstCurveElement(independent_peak_fits[3]) # -1

----------------------------------------------------------------------------
(* The width of the row aggregate_features returns, under SpecAgg *)

\* a scan after the first holds fewer values than the first
LaterScanShorter(scans) ==
    \E s \in 2..Len(scans) : Len(scans[s]) < Len(scans[1])

\* C22 (aggregate_features returns no misaligned row): on an empty list of
\* scans, and on a list where a later scan holds fewer values than the first,
\* the call does not return and ends, if it has ended, with IndexError; a
\* return for two or more scans holds twice as many values as the first scan
\* and as many names as values; a return for one scan holds that scan's
\* values and the names handed in
C22_AlignedOrRaises ==
    LET scans == list_of_scans_features
    IN  /\ (scans = <<>> \/ LaterScanShorter(scans)) =>
               /\ pc \in {"aggregate", "raised"}
               /\ pc = "raised" => error = "IndexError"
        /\ scans = <<>> => aggregated_main_features = <<>>
        /\ (pc = "returned" /\ Len(scans) >= 2) =>
               /\ Len(aggregated_main_features) = 2 * Len(scans[1])
               /\ Len(aggregated_main_features_names) = Len(aggregated_main_features)
               /\ ~LaterScanShorter(scans)
        /\ (pc = "returned" /\ Len(scans) = 1) =>
               /\ aggregated_main_features = scans[1]
               /\ aggregated_main_features_names = agg_names_in
               /\ Len(aggregated_main_features_names) = Len(aggregated_main_features)
        /\ pc = "raised" => (scans = <<>> \/ LaterScanShorter(scans))

\* the second of two scans is one value short: the first column has been
\* aggregated and the second raises
C22_Witness ==
    /\ pc = "raised"
    /\ error = "IndexError"
    /\ Len(list_of_scans_features) = 2
    /\ Len(list_of_scans_features[1]) = 2
    /\ Len(list_of_scans_features[2]) = 1
    /\ j = 2
    /\ Len(aggregated_main_features) = 2

====
